---------------------------- MODULE Spec2Model ----------------------------
(***************************************************************************)
(* A model of the time-tree indexing and ratio <-> height transform engine *)
(* of torchtree / phylotorch:                                              *)
(*   src/phylotorch/evolution/tree_model.py  (indexing, traversals,        *)
(*       bounds, GeneralNodeHeightTransform, TimeTreeModel caches)         *)
(*   src/torchtree/core/model.py             (Model listeners,             *)
(*       CallableModel)                                                    *)
(*                                                                         *)
(* Numbers.  Heights, ratios and sampling times are real numbers in the    *)
(* program (floating point); here they are exact rationals <<n, d>> in     *)
(* lowest terms with d > 0, so floating-point rounding is not modelled.    *)
(* The three non-finite floats are NaN = <<0,0>>, +inf = <<1,0>> and       *)
(* -inf = <<-1,0>>; division by zero produces them as IEEE-754 does.       *)
(*                                                                         *)
(* Tensors.  A tensor is [shape |-> <<b1, ..., bk, n>>, data |-> rows]     *)
(* where rows is the row-major sequence of its b1*...*bk rows of length n  *)
(* (one row when there is no batch dimension).                             *)
(*                                                                         *)
(* Trees.  A dendropy tree is a nested tuple: a leaf is <<label>>, an      *)
(* internal node is <<left, right>>.  A node object is identified by its   *)
(* path from the seed node (a sequence over {1, 2}).                       *)
(***************************************************************************)
EXTENDS Integers, Sequences, FiniteSets, TLC

VARIABLES
    tree,                        \* the dendropy tree (topology with leaf labels)
    taxa,                        \* the Taxa object: sequence of [id, date]
    node_index,                  \* node.index of every node, set by setup_indexes
    postorder,                   \* AbstractTreeModel._postorder
    preorder,                    \* TimeTreeModel.preorder
    sampling_times,              \* TimeTreeModel.sampling_times
    bounds,                      \* TimeTreeModel.bounds
    internal_heights,            \* TimeTreeModel._internal_heights (None or a parameter)
    node_heights_cache,          \* TimeTreeModel._node_heights
    branch_lengths_cache,        \* TimeTreeModel._branch_lengths
    heights_need_update,         \* TimeTreeModel.heights_need_update
    branch_lengths_need_update,  \* TimeTreeModel.branch_lengths_need_update
    recomputed,                  \* times each tensor was rebuilt since the parameter last changed
    listeners,                   \* Model.listeners of every model
    lp_needs_update,             \* CallableModel.lp_needs_update of every callable model
    notified,                    \* handle_model_changed calls made by the last operation
    substitution_model,          \* a GTR or HKY model: its class and registered parameters
    logger,                      \* a Logger: its file, sample counter and rows written
    op,                          \* the last operation performed
    arg,                         \* its input
    ret                          \* the value it returned

vars == <<tree, taxa, node_index, postorder, preorder, sampling_times, bounds,
          internal_heights, node_heights_cache, branch_lengths_cache,
          heights_need_update, branch_lengths_need_update, recomputed,
          listeners, lp_needs_update, notified, substitution_model, logger,
          op, arg, ret>>

treeVars == <<tree, taxa, node_index, postorder, preorder, sampling_times, bounds>>
cacheVars == <<internal_heights, node_heights_cache, branch_lengths_cache,
               heights_need_update, branch_lengths_need_update, recomputed>>
listenerVars == <<listeners, lp_needs_update, notified>>
otherVars == <<substitution_model, logger>>

-----------------------------------------------------------------------------
(* Bounds of the model.                                                    *)

\* taxon dates are drawn from 0 .. MaxDate
MaxDate == 1
\* root heights are drawn from 1/2 and 1 .. MaxRootHeight
MaxRootHeight == 2
\* a batched tensor has 2 .. MaxBatch rows
MaxBatch == 2
\* the count of rebuilds of a tensor is kept up to this number
MaxRecomputed == 2
\* dates given as years are drawn from -MaxYear .. MaxYear
MaxYear == 2
\* edge lengths of a newick tree are drawn from 1 .. MaxEdgeLength
MaxEdgeLength == 2
\* a logger is followed until it has written MaxRows rows
MaxRows == 4

\* the taxon identifiers; a tree has the first T of them as leaves, T >= 2
TaxonIds == <<"A", "B", "C", "D">>

\* Python's None where a tensor or a parameter is expected
None == [none |-> TRUE]

\* Python's None as an entry of a list of numbers
NoneItem == <<>>

-----------------------------------------------------------------------------
(* Sequence helpers.                                                       *)

Range(s) == {s[i] : i \in DOMAIN s}

\* [v] * n
RECURSIVE Repeat(_, _)
Repeat(v, n) == IF n = 0 THEN <<>> ELSE <<v>> \o Repeat(v, n - 1)

RECURSIVE Prod(_)
Prod(s) == IF s = <<>> THEN 1 ELSE Head(s) * Prod(Tail(s))

-----------------------------------------------------------------------------
(* Floating-point numbers as exact rationals.                              *)

Abs(n) == IF n < 0 THEN -n ELSE n

RECURSIVE GCD(_, _)
GCD(a, b) == IF b = 0 THEN a ELSE GCD(b, a % b)

Sign(n) == IF n > 0 THEN 1 ELSE IF n < 0 THEN -1 ELSE 0

NaN == <<0, 0>>
Inf(s) == <<s, 0>>

\* n/d in lowest terms, d # 0
Rat(n, d) ==
    LET g == GCD(Abs(n), Abs(d))
        s == IF d < 0 THEN -1 ELSE 1
    IN  <<s * (n \div g), s * (d \div g)>>

Int2Rat(n) == <<n, 1>>

IsNaN(a) == a = NaN
IsInf(a) == a[2] = 0 /\ a[1] # 0
IsFinite(a) == a[2] # 0

RNeg(a) == <<-a[1], a[2]>>

RAdd(a, b) ==
    IF IsNaN(a) \/ IsNaN(b) THEN NaN
    ELSE IF IsInf(a) THEN (IF IsInf(b) /\ b # a THEN NaN ELSE a)
    ELSE IF IsInf(b) THEN b
    ELSE Rat(a[1] * b[2] + b[1] * a[2], a[2] * b[2])

RSub(a, b) == RAdd(a, RNeg(b))

RMul(a, b) ==
    IF IsNaN(a) \/ IsNaN(b) THEN NaN
    ELSE IF IsInf(a) \/ IsInf(b)
         THEN (IF a[1] = 0 \/ b[1] = 0 THEN NaN ELSE Inf(Sign(a[1]) * Sign(b[1])))
    ELSE Rat(a[1] * b[1], a[2] * b[2])

\* float division: x/0 is +-inf, 0/0 is NaN
RDiv(a, b) ==
    IF IsNaN(a) \/ IsNaN(b) THEN NaN
    ELSE IF IsInf(a) THEN (IF IsInf(b) THEN NaN
                           ELSE Inf(a[1] * (IF b[1] < 0 THEN -1 ELSE 1)))
    ELSE IF IsInf(b) THEN Int2Rat(0)
    ELSE IF b[1] = 0 THEN (IF a[1] = 0 THEN NaN ELSE Inf(Sign(a[1])))
    ELSE Rat(a[1] * b[2], a[2] * b[1])

\* a > b on floats: false when either side is NaN
RGt(a, b) ==
    IF IsNaN(a) \/ IsNaN(b) THEN FALSE
    ELSE IF IsFinite(a) /\ IsFinite(b) THEN a[1] * b[2] > b[1] * a[2]
    ELSE IF IsInf(a) /\ IsInf(b) THEN a[1] > b[1]
    ELSE IF IsInf(a) THEN a[1] > 0
    ELSE b[1] < 0

RGeq(a, b) == ~IsNaN(a) /\ ~IsNaN(b) /\ ~RGt(b, a)

-----------------------------------------------------------------------------
(* The dendropy tree: node objects, iteration orders.                      *)

\* all rooted bifurcating trees (children ordered) whose leaf labels are S
RECURSIVE AllTrees(_)
AllTrees(S) ==
    IF Cardinality(S) = 1 THEN {<<l>> : l \in S}
    ELSE UNION {{<<l, r>> : l \in AllTrees(A), r \in AllTrees(S \ A)} :
                A \in (SUBSET S) \ {{}, S}}

\* node.is_leaf() of the node that is the root of subtree t
is_leaf(t) == Len(t) = 1

\* the subtree below the node at path p
RECURSIVE SubTree(_, _)
SubTree(t, p) == IF p = <<>> THEN t ELSE SubTree(t[Head(p)], Tail(p))

\* node.child_nodes() / node.child_node_iter()
child_nodes(t, p) == IF is_leaf(SubTree(t, p)) THEN <<>> ELSE <<p \o <<1>>, p \o <<2>>>>

\* tree.seed_node
seed_node == <<>>

\* node.parent_node is not None
has_parent(p) == p # seed_node

\* node.parent_node of a node that has one
parent_node(p) == SubSeq(p, 1, Len(p) - 1)

\* tree.postorder_node_iter(): both children before the node
RECURSIVE postorder_node_iter(_, _)
postorder_node_iter(t, p) ==
    IF is_leaf(t) THEN <<p>>
    ELSE postorder_node_iter(t[1], p \o <<1>>)
         \o postorder_node_iter(t[2], p \o <<2>>) \o <<p>>

\* tree.preorder_node_iter(): the node before its children, left child first
RECURSIVE preorder_node_iter(_, _)
preorder_node_iter(t, p) ==
    IF is_leaf(t) THEN <<p>>
    ELSE <<p>> \o preorder_node_iter(t[1], p \o <<1>>)
         \o preorder_node_iter(t[2], p \o <<2>>)

\* tree.leaf_node_iter()
RECURSIVE leaf_node_iter(_, _)
leaf_node_iter(t, p) ==
    IF is_leaf(t) THEN <<p>>
    ELSE leaf_node_iter(t[1], p \o <<1>>) \o leaf_node_iter(t[2], p \o <<2>>)

\* node.taxon.label of a leaf
taxon_label(t, p) == SubTree(t, p)[1]

\* tree.taxon_namespace: the namespace is built from the taxa ids
taxon_namespace(tx) == [i \in DOMAIN tx |-> tx[i].id]

-----------------------------------------------------------------------------
(* setup_indexes                                                           *)

\* mutant: the positions are counted from one
taxa_dict_from_one(ns) ==
    [l \in Range(ns) |-> CHOOSE i \in DOMAIN ns : ns[i] = l]

\* taxa_dict = {taxon.label: idx for idx, taxon in enumerate(namespace)}
taxa_dict(ns) ==
    [l \in Range(ns) |->
        (CHOOSE i \in DOMAIN ns : ns[i] = l /\ \A j \in DOMAIN ns : ns[j] = l => j <= i) - 1]

\* the second loop of setup_indexes over the remaining nodes, with the
\* indexer's next value and the indexes assigned so far
RECURSIVE setup_indexes_loop(_, _, _, _, _)
setup_indexes_loop(t, nodes, next, dict, acc) ==
    IF nodes = <<>> THEN acc
    ELSE LET node == Head(nodes)
         IN  IF ~is_leaf(SubTree(t, node))
             THEN setup_indexes_loop(t, Tail(nodes), next + 1, dict,
                                     [acc EXCEPT ![node] = next])
             ELSE setup_indexes_loop(t, Tail(nodes), next, dict,
                                     [acc EXCEPT ![node] = dict[taxon_label(t, node)]])

\* mutant: the nodes are numbered in preorder
setup_indexes_preorder(t, ns) ==
    LET nodes == preorder_node_iter(t, seed_node)
    IN  setup_indexes_loop(t, nodes, Len(ns), taxa_dict(ns),
                           [n \in Range(nodes) |-> -1])

\* setup_indexes
setup_indexes(t, ns) ==
    LET nodes == postorder_node_iter(t, seed_node)
    IN  setup_indexes_loop(t, nodes, Len(ns), taxa_dict(ns),
                           [n \in Range(nodes) |-> -1])

-----------------------------------------------------------------------------
(* Traversals.                                                             *)

\* AbstractTreeModel.update_traversals: (node, left, right) per internal node
RECURSIVE postorder_loop(_, _, _)
postorder_loop(t, idx, nodes) ==
    IF nodes = <<>> THEN <<>>
    ELSE LET node == Head(nodes)
             children == child_nodes(t, node)
         IN  (IF ~is_leaf(SubTree(t, node))
              THEN <<<<idx[node], idx[children[1]], idx[children[2]]>>>>
              ELSE <<>>)
             \o postorder_loop(t, idx, Tail(nodes))

\* mutant: the triples are listed in preorder, parents before children
abstract_update_traversals_preorder(t, idx) ==
    postorder_loop(t, idx, preorder_node_iter(t, seed_node))

abstract_update_traversals(t, idx) ==
    postorder_loop(t, idx, postorder_node_iter(t, seed_node))

\* TimeTreeModel.update_traversals: (parent, node) per non-seed node
RECURSIVE preorder_loop(_, _)
preorder_loop(idx, nodes) ==
    IF nodes = <<>> THEN <<>>
    ELSE LET node == Head(nodes)
         IN  (IF has_parent(node)
              THEN <<<<idx[parent_node(node)], idx[node]>>>>
              ELSE <<>>)
             \o preorder_loop(idx, Tail(nodes))

\* mutant: the pairs are listed in postorder, children before parents
update_traversals_postorder(t, idx) == preorder_loop(idx, postorder_node_iter(t, seed_node))

update_traversals(t, idx) == preorder_loop(idx, preorder_node_iter(t, seed_node))

-----------------------------------------------------------------------------
(* Sampling times and bounds.                                              *)

RECURSIVE SeqMax(_)
SeqMax(s) ==
    IF Len(s) = 1 THEN s[1]
    ELSE LET m == SeqMax(Tail(s)) IN IF s[1] > m THEN s[1] ELSE m

RECURSIVE SeqMin(_)
SeqMin(s) ==
    IF Len(s) = 1 THEN s[1]
    ELSE LET m == SeqMin(Tail(s)) IN IF s[1] < m THEN s[1] ELSE m

\* mutant: max_date - date whatever the smallest date is
update_leaf_heights_from_max(tx) ==
    LET dates == [i \in DOMAIN tx |-> tx[i].date]
        max_date == SeqMax(dates)
    IN  [idx \in DOMAIN tx |-> Int2Rat(max_date - tx[idx].date)]

\* TimeTreeModel.update_leaf_heights
update_leaf_heights(tx) ==
    LET dates == [i \in DOMAIN tx |-> tx[i].date]
        max_date == SeqMax(dates)
    IN  IF SeqMin(dates) = 0
        THEN [idx \in DOMAIN tx |-> Int2Rat(tx[idx].date)]
        ELSE [idx \in DOMAIN tx |-> Int2Rat(max_date - tx[idx].date)]

\* mutant: the smaller of the two child heights
bound_of_min(left_height, right_height) ==
    IF RGt(right_height, left_height) THEN left_height ELSE right_height

\* the larger of the two child heights in update_bounds
bound_of(left_height, right_height) ==
    IF RGt(left_height, right_height) THEN left_height ELSE right_height

\* the loop of update_bounds over the postorder triples; comparing a height
\* that is still None raises TypeError
RECURSIVE update_bounds_loop(_, _, _, _)
update_bounds_loop(count, times, triples, heights) ==
    IF triples = <<>> THEN [ok |-> TRUE, heights |-> heights]
    ELSE LET node == Head(triples)[1]
             left == Head(triples)[2]
             right == Head(triples)[3]
             left_height == IF left < count THEN times[left + 1]
                            ELSE heights[left - count + 1]
             right_height == IF right < count THEN times[right + 1]
                             ELSE heights[right - count + 1]
         IN  IF left_height = NoneItem \/ right_height = NoneItem
             THEN [ok |-> FALSE, heights |-> heights]
             ELSE update_bounds_loop(count, times, Tail(triples),
                      [heights EXCEPT ![node - count + 1] =
                          bound_of(left_height, right_height)])

\* TimeTreeModel.update_bounds
update_bounds(count, times, triples) ==
    LET done == update_bounds_loop(count, times, triples, Repeat(NoneItem, count - 1))
    IN  IF done.ok THEN times \o done.heights ELSE [error |-> "TypeError"]

-----------------------------------------------------------------------------
(* Tensors.                                                                *)

\* a tensor with no batch dimension
Tensor1(row) == [shape |-> <<Len(row)>>, data |-> <<row>>]

\* x.shape[:-1]
batch_shape(x) == SubSeq(x.shape, 1, Len(x.shape) - 1)

\* x.shape[-1]
last_dim(x) == x.shape[Len(x.shape)]

IsError(v) == "error" \in DOMAIN v
IsTensor(v) == "shape" \in DOMAIN v

RuntimeError == [error |-> "RuntimeError"]
AttributeError == [error |-> "AttributeError"]
RecursionError == [error |-> "RecursionError"]

\* torch.cat((a, b), dim) for dim the first or the last dimension: along the
\* last dimension the rows are joined one by one; along dimension 0 of
\* tensors with batch dimensions the rows of b follow the rows of a, and all
\* other dimensions must agree
torch_cat(a, b, dim) ==
    LET nd == Len(a.shape)
        d == IF dim < 0 THEN nd + dim ELSE dim
    IN  IF Len(b.shape) # nd THEN RuntimeError
        ELSE IF d = nd - 1
        THEN IF batch_shape(a) # batch_shape(b) THEN RuntimeError
             ELSE [shape |-> batch_shape(a) \o <<last_dim(a) + last_dim(b)>>,
                   data |-> [r \in DOMAIN a.data |-> a.data[r] \o b.data[r]]]
        ELSE IF Tail(a.shape) # Tail(b.shape) THEN RuntimeError
             ELSE [shape |-> <<a.shape[1] + b.shape[1]>> \o Tail(a.shape),
                   data |-> a.data \o b.data]

\* times.expand(batch + (-1,)) of a tensor without batch dimension
expand(row, batch) ==
    [shape |-> batch \o <<Len(row)>>, data |-> [r \in 1 .. Prod(batch) |-> row]]

\* pairs[np.argsort(pairs[:, 1])]: the pairs in increasing order of column 1
RECURSIVE argsort_insert(_, _)
argsort_insert(pair, sorted) ==
    IF sorted = <<>> THEN <<pair>>
    ELSE IF pair[2] < Head(sorted)[2] THEN <<pair>> \o sorted
    ELSE <<Head(sorted)>> \o argsort_insert(pair, Tail(sorted))

RECURSIVE argsort_column1(_)
argsort_column1(pairs) ==
    IF pairs = <<>> THEN <<>>
    ELSE argsort_insert(pairs[Len(pairs)],
                        argsort_column1(SubSeq(pairs, 1, Len(pairs) - 1)))

-----------------------------------------------------------------------------
(* GeneralNodeHeightTransform                                              *)

\* mutant: the sweep reads the parent's ratio, not its transformed height
call_parent_height_ratio(heights, xrow, parent_id, count) ==
    xrow[parent_id - count + 1]

\* the height the forward sweep reads for the parent of a node
call_parent_height(heights, xrow, parent_id, taxa_count) ==
    heights[parent_id - taxa_count + 1]

\* mutant: the offset is subtracted from the bound
call_height_minus(bound, ratio, parent_height) ==
    RSub(bound, RMul(ratio, RSub(parent_height, bound)))

\* bounds[id_] + x[id_] * (heights[parent_id] - bounds[id_])
call_height(bound, ratio, parent_height) ==
    RAdd(bound, RMul(ratio, RSub(parent_height, bound)))

\* the loop of _call over the preorder pairs, for one row of the batch
RECURSIVE call_loop(_, _, _, _, _)
call_loop(taxa_count, bnds, pairs, xrow, heights) ==
    IF pairs = <<>> THEN heights
    ELSE LET parent_id == Head(pairs)[1]
             id_ == Head(pairs)[2]
         IN  IF id_ >= taxa_count
             THEN call_loop(taxa_count, bnds, Tail(pairs), xrow,
                      [heights EXCEPT ![id_ - taxa_count + 1] =
                          call_height(bnds[id_ + 1], xrow[id_ - taxa_count + 1],
                              call_parent_height(heights, xrow, parent_id, taxa_count))])
             ELSE call_loop(taxa_count, bnds, Tail(pairs), xrow, heights)

\* GeneralNodeHeightTransform._call
transform_call(taxa_count, bnds, pre, x) ==
    [shape |-> x.shape,
     data |-> [r \in DOMAIN x.data |->
                  call_loop(taxa_count, bnds, pre, x.data[r], x.data[r])]]

\* the dimension along which _inverse joins the ratios and the root height
inverse_cat_dim == 0

\* GeneralNodeHeightTransform._inverse
transform_inverse(taxa_count, bnds, pre, y) ==
    LET indices == argsort_column1(pre)
        count == Len(indices) - taxa_count
        nodes == [k \in 1 .. count |-> indices[taxa_count + k][2]]
        parents == [k \in 1 .. count |-> indices[taxa_count + k][1]]
        bsel == [k \in 1 .. count |-> bnds[nodes[k] + 1]]
        ratios == [shape |-> batch_shape(y) \o <<count>>,
                   data |-> [r \in DOMAIN y.data |->
                       [k \in 1 .. count |->
                           RDiv(RSub(y.data[r][nodes[k] - taxa_count + 1], bsel[k]),
                                RSub(y.data[r][parents[k] - taxa_count + 1], bsel[k]))]]]
        root == [shape |-> batch_shape(y) \o <<1>>,
                 data |-> [r \in DOMAIN y.data |-> <<y.data[r][last_dim(y)]>>]]
    IN  torch_cat(ratios, root, inverse_cat_dim)

\* mutant: the parents are taken in preorder, without the argsort
transform_indices_unsorted(count, pre) ==
    [k \in 1 .. Len(pre) - count |-> pre[count + k][1] - count]

\* GeneralNodeHeightTransform.__init__: self.indices
transform_indices(taxa_count, pre) ==
    LET sorted == argsort_column1(pre)
    IN  [k \in 1 .. Len(sorted) - taxa_count |-> sorted[taxa_count + k][1] - taxa_count]

\* GeneralNodeHeightTransform.log_abs_det_jacobian: per row of the batch the
\* sum of the logarithms of the listed arguments
log_abs_det_jacobian(taxa_count, bnds, pre, x, y) ==
    LET indices == transform_indices(taxa_count, pre)
    IN  [shape |-> batch_shape(y),
         data |-> [r \in DOMAIN y.data |->
             [sum_log |-> [k \in DOMAIN indices |->
                 RSub(y.data[r][indices[k] + 1], bnds[taxa_count + k])]]]]

-----------------------------------------------------------------------------
(* TimeTreeModel: cached node heights and branch lengths.                  *)

\* self._internal_heights.tensor: the tensor of a plain Parameter, or the
\* transform applied to the ratios of a TransformedParameter
parameter_tensor(count, bnds, pre, ih) ==
    IF ih.kind = "TransformedParameter" THEN transform_call(count, bnds, pre, ih.x)
    ELSE ih.x

\* whether setting the tensor of the parameter held in _internal_heights
\* calls handle_parameter_changed of the tree model: the model listens to
\* the parameter it holds, however it came to hold it
parameter_notifies(ih) == ih # None

\* the tensor built by the node_heights property
node_heights_tensor(times, heights) ==
    torch_cat(expand(times, batch_shape(heights)), heights, -1)

\* mutant: the preorder pairs are taken as they come, not sorted by node index
branch_lengths_tensor_unsorted(pre, heights) ==
    [shape |-> batch_shape(heights) \o <<Len(pre)>>,
     data |-> [r \in DOMAIN heights.data |->
         [k \in DOMAIN pre |->
             RSub(heights.data[r][pre[k][1] + 1], heights.data[r][pre[k][2] + 1])]]]

\* the tensor built by branch_lengths()
branch_lengths_tensor(pre, heights) ==
    LET indices_sorted == argsort_column1(pre)
    IN  [shape |-> batch_shape(heights) \o <<Len(indices_sorted)>>,
         data |-> [r \in DOMAIN heights.data |->
             [k \in DOMAIN indices_sorted |->
                 RSub(heights.data[r][indices_sorted[k][1] + 1],
                      heights.data[r][indices_sorted[k][2] + 1])]]]

\* mutant: the test of the flag is inverted
node_heights_recomputes_inverted(need_update) == ~need_update

\* whether the node_heights property rebuilds the tensor
node_heights_recomputes(need_update) == need_update

\* mutant: the flag is not cleared after rebuilding
node_heights_flag_kept(need_update, cache, times, heights) ==
    IF node_heights_recomputes(need_update)
    THEN [value |-> node_heights_tensor(times, heights),
          cache |-> node_heights_tensor(times, heights),
          need_update |-> need_update,
          recomputed |-> TRUE]
    ELSE [value |-> cache, cache |-> cache, need_update |-> need_update,
          recomputed |-> FALSE]

\* the node_heights property: the tensor returned, the fields afterwards,
\* and whether the tensor was rebuilt
node_heights(need_update, cache, times, heights) ==
    IF node_heights_recomputes(need_update)
    THEN [value |-> node_heights_tensor(times, heights),
          cache |-> node_heights_tensor(times, heights),
          need_update |-> FALSE,
          recomputed |-> TRUE]
    ELSE [value |-> cache, cache |-> cache, need_update |-> need_update,
          recomputed |-> FALSE]

\* mutant: the test of the flag is inverted
branch_lengths_recomputes_inverted(need_update) == ~need_update

\* whether branch_lengths() rebuilds the tensor
branch_lengths_recomputes(need_update) == need_update

\* TimeTreeModel.branch_lengths(): the tensor returned and the fields
\* afterwards; rebuilding reads the node_heights property
branch_lengths(bl_need, bl_cache, h_need, h_cache, times, pre, heights) ==
    IF branch_lengths_recomputes(bl_need)
    THEN LET read == node_heights(h_need, h_cache, times, heights)
             lengths == branch_lengths_tensor(pre, read.value)
         IN  [value |-> lengths,
              branch_lengths_cache |-> lengths,
              branch_lengths_need_update |-> FALSE,
              node_heights_cache |-> read.cache,
              heights_need_update |-> read.need_update,
              lengths_recomputed |-> TRUE,
              heights_recomputed |-> read.recomputed]
    ELSE [value |-> bl_cache,
          branch_lengths_cache |-> bl_cache,
          branch_lengths_need_update |-> bl_need,
          node_heights_cache |-> h_cache,
          heights_need_update |-> h_need,
          lengths_recomputed |-> FALSE,
          heights_recomputed |-> FALSE]

\* no tensor rebuilt yet
NoneRecomputed == [heights |-> 0, lengths |-> 0]

\* the counts after an operation that did or did not rebuild each tensor
count_recomputed(counts, heights_rebuilt, lengths_rebuilt) ==
    [heights |-> IF heights_rebuilt /\ counts.heights < MaxRecomputed
                 THEN counts.heights + 1 ELSE counts.heights,
     lengths |-> IF lengths_rebuilt /\ counts.lengths < MaxRecomputed
                 THEN counts.lengths + 1 ELSE counts.lengths]

\* mutant: only the node heights are marked
handle_parameter_changed_lengths_kept(bl_need, h_need) ==
    [branch_lengths_need_update |-> bl_need, heights_need_update |-> TRUE]

\* mutant: only the branch lengths are marked
handle_parameter_changed_heights_kept(bl_need, h_need) ==
    [branch_lengths_need_update |-> TRUE, heights_need_update |-> h_need]

\* TimeTreeModel.handle_parameter_changed: the two flags afterwards
handle_parameter_changed(bl_need, h_need) ==
    [branch_lengths_need_update |-> TRUE, heights_need_update |-> TRUE]

-----------------------------------------------------------------------------
(* AbstractTreeModel.write_newick. The stream is a sequence of tokens: the *)
(* punctuation written, the leaf labels, and the numbers formatted.        *)

IndexError == [error |-> "IndexError"]

Punct(c) == [punct |-> c]

\* branch_lengths[node.index]: the first dimension of the tensor is indexed,
\* IndexError past its end; of a tensor with batch dimensions that is the
\* batch, and the item is a tensor
branch_lengths_item(bl, index) ==
    IF index >= bl.shape[1]
    THEN [ok |-> FALSE, item |-> IndexError]
    ELSE IF Len(bl.shape) = 1
         THEN [ok |-> TRUE, item |-> [number |-> bl.data[1][index + 1]]]
         ELSE [ok |-> TRUE, item |-> [tensor |-> Tail(bl.shape), batch |-> index]]

\* the leaf as _write_newick writes it: str(node.taxon) or str(node.index + 1)
leaf_name(t, idx, node, taxon_index) ==
    IF ~taxon_index THEN [label |-> taxon_label(t, node)]
    ELSE [index |-> idx[node] + 1]

\* AbstractTreeModel._write_newick of a node onto the stream out; nothing
\* more is written once an exception was raised
RECURSIVE write_newick_node(_, _, _, _, _, _)
write_newick_node(t, idx, node, taxon_index, bl, stream) ==
    IF ~stream.ok THEN stream
    ELSE LET body ==
                 IF ~is_leaf(SubTree(t, node))
                 THEN LET children == child_nodes(t, node)
                          opened == [stream EXCEPT !.out = Append(@, Punct("("))]
                          first == write_newick_node(t, idx, children[1], taxon_index, bl, opened)
                          comma == IF first.ok
                                   THEN [first EXCEPT !.out = Append(@, Punct(","))]
                                   ELSE first
                          second == write_newick_node(t, idx, children[2], taxon_index, bl, comma)
                      IN  IF second.ok
                          THEN [second EXCEPT !.out = Append(@, Punct(")"))]
                          ELSE second
                 ELSE [stream EXCEPT !.out = Append(@, leaf_name(t, idx, node, taxon_index))]
         IN  IF ~body.ok THEN body
             ELSE IF has_parent(node)
                  THEN LET length == branch_lengths_item(bl, idx[node])
                       IN  IF length.ok
                           THEN [body EXCEPT !.out = @ \o <<Punct(":"), length.item>>]
                           ELSE [body EXCEPT !.ok = FALSE]
                  ELSE [body EXCEPT !.out = Append(@, Punct(";"))]

\* AbstractTreeModel.write_newick
write_newick(t, idx, taxon_index, bl) ==
    write_newick_node(t, idx, seed_node, taxon_index, bl, [ok |-> TRUE, out |-> <<>>])

-----------------------------------------------------------------------------
(* Model listeners and CallableModel.                                      *)

\* the models: one TimeTreeModel and the CallableModels that may listen
TreeModel == "tree"
Callables == {"m1", "m2"}
Models == {TreeModel} \cup Callables

\* Model.add_model_listener / add_parameter_listener: listeners.append
add_listener(ls, listener) == Append(ls, listener)

\* mutant: every occurrence of the listener is taken out
remove_listener_all(ls, listener) ==
    SelectSeq(ls, LAMBDA l : l # listener)

\* Model.remove_model_listener / remove_parameter_listener: listeners.remove
\* takes out the first occurrence
RECURSIVE remove_listener(_, _)
remove_listener(ls, listener) ==
    IF ls = <<>> THEN <<>>
    ELSE IF Head(ls) = listener THEN Tail(ls)
    ELSE <<Head(ls)>> \o remove_listener(Tail(ls), listener)

\* a chain of calls longer than the number of models passes twice through
\* one model, so it never ends: Python raises RecursionError
RecursionLimit == Cardinality(Models)

\* mutant: only the first listener is called
fired_listeners_first(ls) == IF ls = <<>> THEN <<>> ELSE <<Head(ls)>>

\* the listeners fire_model_changed calls, in order
fired_listeners(ls) == ls

\* mutant: a callable model sets its flag and does not fire
callable_fires_none(m) == FALSE

\* whether handle_model_changed of listener m goes on to fire_model_changed:
\* CallableModel does, AbstractTreeModel passes
callable_fires(m) == m \in Callables

\* mutant: the flag is not cleared after _call
callable_call_keeps_flag(needs_update) ==
    [recomputed |-> needs_update, lp_needs_update |-> needs_update]

\* CallableModel.__call__: whether _call is invoked (otherwise the cached
\* self.lp is returned), and lp_needs_update afterwards
callable_call(needs_update) ==
    [recomputed |-> needs_update, lp_needs_update |-> FALSE]

\* Model.fire_model_changed of model m, and the handle_model_changed of
\* every listener it calls; st holds the lp_needs_update flags, the calls
\* made so far and whether RecursionError was raised
RECURSIVE fire_loop(_, _, _, _, _)
fire_loop(lsn, m, ls, st, depth) ==
    IF ls = <<>> \/ st.err THEN st
    ELSE LET l == Head(ls)
             called == [st EXCEPT !.log = Append(@, <<m, l>>)]
             handled == IF l \in Callables
                        THEN [called EXCEPT !.lp[l] = TRUE]
                        ELSE called
             done == IF ~callable_fires(l) THEN handled
                     ELSE IF depth + 1 > RecursionLimit
                          THEN [handled EXCEPT !.err = TRUE]
                          ELSE fire_loop(lsn, l, fired_listeners(lsn[l]), handled, depth + 1)
         IN  fire_loop(lsn, m, Tail(ls), done, depth)

fire_model_changed(lsn, m, lp) ==
    fire_loop(lsn, m, fired_listeners(lsn[m]), [lp |-> lp, log |-> <<>>, err |-> FALSE], 1)

-----------------------------------------------------------------------------
(* Inputs.                                                                 *)

\* ratios in (0, 1)
RatioValues == {<<1, 3>>, <<1, 2>>}

\* positive root heights, below, at and above the sampling times
RootHeights == {<<1, 2>>} \cup {Int2Rat(h) : h \in 1 .. MaxRootHeight}

\* len(tree.taxon_namespace)
taxa_count == Len(taxa)

\* the Taxa object of the first T taxon identifiers with the given dates
TaxaOf(dates) == [i \in DOMAIN dates |-> [id |-> TaxonIds[i], date |-> dates[i]]]

\* the rows of a ratio tensor of a tree with T taxa: T-2 ratios, then the root height
Rows(T) ==
    {ratios \o <<h>> : ratios \in [1 .. T - 2 -> RatioValues], h \in RootHeights}

\* B rows made from one: row i has the root height raised by i-1
BatchRows(row, B) ==
    [i \in 1 .. B |-> [row EXCEPT ![Len(row)] = RAdd(row[Len(row)], Int2Rat(i - 1))]]

\* the ratios and root height of test_coalescent.py: 2/6, 6/12, 12
ratios_list == <<<<1, 3>>, <<1, 2>>, <<12, 1>>>>

\* the reference operator of test_coalescent.py for the ladder tree
inverse_transform_homochronous(ratios) ==
    [shape |-> ratios.shape,
     data |-> [r \in DOMAIN ratios.data |->
         LET row == ratios.data[r]
             h2 == row[Len(row)]
             h1 == RMul(row[2], h2)
             h0 == RMul(row[1], h1)
         IN  <<h0, h1, h2>>]]

\* the input tensors: no batch dimension, one, or two leading batch dimensions
\* (the batched ones are made from the rows with the largest root height)
Tensors(T) ==
    LET top == {row \in Rows(T) : row[T - 1] = Int2Rat(MaxRootHeight)}
    IN  {Tensor1(row) : row \in Rows(T)}
        \cup {[shape |-> <<B, T - 1>>, data |-> BatchRows(row, B)] :
                 row \in top, B \in 2 .. MaxBatch}
        \cup {[shape |-> <<1, B, T - 1>>, data |-> BatchRows(row, B)] :
                 row \in top, B \in 2 .. MaxBatch}
        \cup (IF T = Len(ratios_list) + 1 THEN {Tensor1(ratios_list)} ELSE {})

-----------------------------------------------------------------------------
(* Construction: parse_tree, then TimeTreeModel.__init__ with no parameter *)
(* (TimeTreeModel.from_json).                                              *)

TimeTreeModelInit(t, tx) ==
    LET idx == setup_indexes(t, taxon_namespace(tx))
        post == abstract_update_traversals(t, idx)
        times == update_leaf_heights(tx)
    IN  /\ tree = t
        /\ taxa = tx
        /\ node_index = idx
        /\ postorder = post
        /\ preorder = update_traversals(t, idx)
        /\ sampling_times = times
        /\ bounds = update_bounds(Len(tx), times, post)
        /\ internal_heights = None
        /\ branch_lengths_cache = None
        /\ node_heights_cache = None
        /\ branch_lengths_need_update = TRUE
        /\ heights_need_update = TRUE
        /\ recomputed = NoneRecomputed

\* no substitution model and no logger is constructed
NoOtherObjects ==
    /\ substitution_model = None
    /\ logger = None

\* Model.__init__ / CallableModel.__init__ of every model
NoListeners ==
    /\ listeners = [m \in Models |-> <<>>]
    /\ lp_needs_update = [m \in Callables |-> TRUE]
    /\ notified = <<>>

NoOperation ==
    /\ op = "__init__"
    /\ arg = None
    /\ ret = None

-----------------------------------------------------------------------------
(* The transform applied to input tensors, on every tree.                  *)

InitTransform ==
    /\ \E T \in 2 .. Len(TaxonIds) :
         \E t \in AllTrees({TaxonIds[i] : i \in 1 .. T}), dates \in [1 .. T -> 0 .. MaxDate] :
            TimeTreeModelInit(t, TaxaOf(dates))
    /\ NoListeners
    /\ NoOtherObjects
    /\ op = "input"
    /\ arg \in {[x |-> x] : x \in Tensors(taxa_count)}
    /\ ret = None

\* y = transform(x) of the input drawn
TransformCall ==
    /\ op = "input"
    /\ op' = "_call"
    /\ arg' = arg
    /\ ret' = transform_call(taxa_count, bounds, preorder, arg.x)
    /\ UNCHANGED <<treeVars, cacheVars, listenerVars>>
    /\ UNCHANGED otherVars

\* transform.inv(y) of the y just computed
TransformInverse ==
    /\ op = "_call"
    /\ op' = "_inverse"
    /\ arg' = [x |-> arg.x, y |-> ret]
    /\ ret' = transform_inverse(taxa_count, bounds, preorder, ret)
    /\ UNCHANGED <<treeVars, cacheVars, listenerVars>>
    /\ UNCHANGED otherVars

\* transform.log_abs_det_jacobian(x, y) of the y just computed
TransformJacobian ==
    /\ op = "_call"
    /\ op' = "log_abs_det_jacobian"
    /\ arg' = [x |-> arg.x, y |-> ret]
    /\ ret' = log_abs_det_jacobian(taxa_count, bounds, preorder, arg.x, ret)
    /\ UNCHANGED <<treeVars, cacheVars, listenerVars>>
    /\ UNCHANGED otherVars

NextTransform ==
    \/ TransformCall
    \/ TransformInverse
    \/ TransformJacobian

SpecTransform == InitTransform /\ [][NextTransform]_vars

-----------------------------------------------------------------------------
(* The TimeTreeModel in use: the parameter is assigned and changed, node   *)
(* heights and branch lengths are read.                                    *)

\* the tree of test_ctmc_scale.py, ((((A_0,B_1),C_2),D_3),E_12), its taxa
\* and its internal heights
CtmcTree == <<<<<<<<<<"A_0">>, <<"B_1">>>>, <<"C_2">>>>, <<"D_3">>>>, <<"E_12">>>>
CtmcTaxa ==
    <<[id |-> "A_0", date |-> 0], [id |-> "B_1", date |-> 1], [id |-> "C_2", date |-> 2],
      [id |-> "D_3", date |-> 3], [id |-> "E_12", date |-> 12]>>
CtmcHeights == <<<<3, 2>>, <<4, 1>>, <<6, 1>>, <<16, 1>>>>
CtmcTensors ==
    {Tensor1(CtmcHeights),
     Tensor1(<<<<3, 2>>, <<4, 1>>, <<6, 1>>, <<17, 1>>>>),
     [shape |-> <<2, 4>>, data |-> <<CtmcHeights, CtmcHeights>>]}

\* the tensors given to the parameter of a model: of the input tensors those
\* with the largest root height in the first row and all ratios equal, with
\* at most one batch dimension
ModelTensors ==
    IF tree = CtmcTree THEN CtmcTensors
    ELSE {x \in Tensors(taxa_count) :
            /\ Len(x.shape) <= 2
            /\ x.data[1][taxa_count - 1] = Int2Rat(MaxRootHeight)
            /\ \A k \in 1 .. taxa_count - 2 : x.data[1][k] = x.data[1][1]}

\* the taxa of the other trees given to a model
ModelTaxonIds == {"A", "B", "C"}

\* the kinds of parameter: a Parameter of heights, a TransformedParameter of ratios
ModelKinds == IF tree = CtmcTree THEN {"Parameter"} ELSE {"Parameter", "TransformedParameter"}

\* the dates of those taxa: the first taxon has date 0 (it takes every place
\* in the topologies)
ModelDates ==
    {dates \in [1 .. Cardinality(ModelTaxonIds) -> 0 .. MaxDate] : dates[1] = 0}

Init ==
    /\ \/ \E t \in AllTrees(ModelTaxonIds), dates \in ModelDates :
                 TimeTreeModelInit(t, TaxaOf(dates))
       \/ TimeTreeModelInit(CtmcTree, CtmcTaxa)
    /\ NoListeners
    /\ NoOtherObjects
    /\ NoOperation

\* TimeTreeModel.__init__ with a parameter, or from_json assigning
\* tree_model._internal_heights after the construction
AssignParameter(kind, x) ==
    /\ internal_heights = None
    /\ internal_heights' = [kind |-> kind, x |-> x]
    /\ op' = "from_json"
    /\ arg' = [x |-> x]
    /\ ret' = None
    /\ notified' = <<>>
    /\ UNCHANGED <<treeVars, node_heights_cache, branch_lengths_cache,
                   heights_need_update, branch_lengths_need_update, recomputed,
                   listeners, lp_needs_update>>
    /\ UNCHANGED otherVars

\* the ratio parameter is given a new tensor; the parameter calls
\* handle_parameter_changed of the tree model
SetTensor(x) ==
    /\ parameter_notifies(internal_heights)
    /\ internal_heights' = [internal_heights EXCEPT !.x = x]
    /\ LET flags == handle_parameter_changed(branch_lengths_need_update,
                                             heights_need_update)
           fired == fire_model_changed(listeners, TreeModel, lp_needs_update)
       IN  /\ branch_lengths_need_update' = flags.branch_lengths_need_update
           /\ heights_need_update' = flags.heights_need_update
           /\ lp_needs_update' = fired.lp
           /\ notified' = fired.log
           /\ ret' = IF fired.err THEN RecursionError ELSE None
    /\ recomputed' = NoneRecomputed
    /\ op' = "handle_parameter_changed"
    /\ arg' = [x |-> x]
    /\ UNCHANGED <<treeVars, node_heights_cache, branch_lengths_cache, listeners>>
    /\ UNCHANGED otherVars

\* tree_model.node_heights
ReadNodeHeights ==
    /\ op' = "node_heights"
    /\ arg' = None
    /\ notified' = <<>>
    /\ IF heights_need_update /\ internal_heights = None
       THEN /\ ret' = AttributeError
            /\ UNCHANGED <<node_heights_cache, heights_need_update, recomputed>>
       ELSE LET read == node_heights(heights_need_update, node_heights_cache,
                            sampling_times,
                            parameter_tensor(taxa_count, bounds, preorder, internal_heights))
            IN  /\ ret' = read.value
                /\ node_heights_cache' = read.cache
                /\ heights_need_update' = read.need_update
                /\ recomputed' = count_recomputed(recomputed, read.recomputed, FALSE)
    /\ UNCHANGED <<treeVars, internal_heights, branch_lengths_cache,
                   branch_lengths_need_update, listeners, lp_needs_update>>
    /\ UNCHANGED otherVars

\* tree_model.branch_lengths()
ReadBranchLengths ==
    /\ op' = "branch_lengths"
    /\ arg' = None
    /\ notified' = <<>>
    /\ IF branch_lengths_need_update /\ heights_need_update /\ internal_heights = None
       THEN /\ ret' = AttributeError
            /\ UNCHANGED <<node_heights_cache, heights_need_update,
                           branch_lengths_cache, branch_lengths_need_update, recomputed>>
       ELSE LET read == branch_lengths(branch_lengths_need_update, branch_lengths_cache,
                            heights_need_update, node_heights_cache,
                            sampling_times, preorder,
                            parameter_tensor(taxa_count, bounds, preorder, internal_heights))
            IN  /\ ret' = read.value
                /\ branch_lengths_cache' = read.branch_lengths_cache
                /\ branch_lengths_need_update' = read.branch_lengths_need_update
                /\ node_heights_cache' = read.node_heights_cache
                /\ heights_need_update' = read.heights_need_update
                /\ recomputed' = count_recomputed(recomputed, read.heights_recomputed,
                                                  read.lengths_recomputed)
    /\ UNCHANGED <<treeVars, internal_heights, listeners, lp_needs_update>>
    /\ UNCHANGED otherVars

\* tree_model.write_newick(stream, taxon_index=...): every non-root node
\* calls self.branch_lengths() for the default of kwargs.get
WriteNewick(taxon_index) ==
    /\ op' = "write_newick"
    /\ arg' = [taxon_index |-> taxon_index]
    /\ notified' = <<>>
    /\ IF branch_lengths_need_update /\ heights_need_update /\ internal_heights = None
       THEN /\ ret' = AttributeError
            /\ UNCHANGED <<node_heights_cache, heights_need_update,
                           branch_lengths_cache, branch_lengths_need_update, recomputed>>
       ELSE LET read == branch_lengths(branch_lengths_need_update, branch_lengths_cache,
                            heights_need_update, node_heights_cache,
                            sampling_times, preorder,
                            parameter_tensor(taxa_count, bounds, preorder, internal_heights))
                written == write_newick(tree, node_index, taxon_index, read.value)
            IN  /\ ret' = IF written.ok THEN [newick |-> written.out] ELSE IndexError
                /\ branch_lengths_cache' = read.branch_lengths_cache
                /\ branch_lengths_need_update' = read.branch_lengths_need_update
                /\ node_heights_cache' = read.node_heights_cache
                /\ heights_need_update' = read.heights_need_update
                /\ recomputed' = count_recomputed(recomputed, read.heights_recomputed,
                                                  read.lengths_recomputed)
    /\ UNCHANGED <<treeVars, internal_heights, listeners, lp_needs_update>>
    /\ UNCHANGED otherVars

Next ==
    \/ \E kind \in ModelKinds, x \in ModelTensors : AssignParameter(kind, x)
    \/ \E x \in ModelTensors : SetTensor(x)
    \/ ReadNodeHeights
    \/ ReadBranchLengths
    \/ \E taxon_index \in BOOLEAN : WriteNewick(taxon_index)

Spec == Init /\ [][Next]_vars

-----------------------------------------------------------------------------
(* The TimeTreeModel with CallableModels listening: listeners are added    *)
(* and removed, parameters change, the models are called.                  *)

\* the most listeners registered at one time, over all models
MaxRegistrations == 3

\* the number of listeners registered
RECURSIVE Registrations(_)
Registrations(ms) ==
    IF ms = {} THEN 0
    ELSE LET m == CHOOSE k \in ms : TRUE
         IN  Len(listeners[m]) + Registrations(ms \ {m})

InitListeners ==
    /\ TimeTreeModelInit(CtmcTree, CtmcTaxa)
    /\ NoListeners
    /\ NoOtherObjects
    /\ NoOperation

\* Model.add_model_listener
AddListener(m, l) ==
    /\ Registrations(Models) < MaxRegistrations
    /\ listeners' = [listeners EXCEPT ![m] = add_listener(@, l)]
    /\ op' = "add_model_listener"
    /\ arg' = [model |-> m]
    /\ ret' = None
    /\ notified' = <<>>
    /\ UNCHANGED <<treeVars, cacheVars, lp_needs_update>>
    /\ UNCHANGED otherVars

\* Model.remove_model_listener of a registered listener
RemoveListener(m, l) ==
    /\ l \in Range(listeners[m])
    /\ listeners' = [listeners EXCEPT ![m] = remove_listener(@, l)]
    /\ op' = "remove_model_listener"
    /\ arg' = [model |-> m]
    /\ ret' = None
    /\ notified' = <<>>
    /\ UNCHANGED <<treeVars, cacheVars, lp_needs_update>>
    /\ UNCHANGED otherVars

\* CallableModel.handle_parameter_changed: a parameter of m itself changed
CallableParameterChanged(m) ==
    /\ LET fired == fire_loop(listeners, m, fired_listeners(listeners[m]),
                        [lp |-> [lp_needs_update EXCEPT ![m] = TRUE],
                         log |-> <<>>, err |-> FALSE], 1)
       IN  /\ lp_needs_update' = fired.lp
           /\ notified' = fired.log
           /\ ret' = IF fired.err THEN RecursionError ELSE None
    /\ op' = "CallableModel.handle_parameter_changed"
    /\ arg' = [model |-> m]
    /\ UNCHANGED <<treeVars, cacheVars, listeners>>
    /\ UNCHANGED otherVars

\* CallableModel.__call__: _call runs when lp_needs_update is set
Call(m) ==
    /\ LET called == callable_call(lp_needs_update[m])
       IN  /\ lp_needs_update' = [lp_needs_update EXCEPT ![m] = called.lp_needs_update]
           /\ ret' = [recomputed |-> called.recomputed]
    /\ op' = "__call__"
    /\ arg' = [model |-> m]
    /\ notified' = <<>>
    /\ UNCHANGED <<treeVars, cacheVars, listeners>>
    /\ UNCHANGED otherVars

\* any model may be registered with any model, except the tree model with itself
NextListeners ==
    \/ AssignParameter("Parameter", Tensor1(CtmcHeights))
    \/ \E x \in {y \in ModelTensors : Len(y.shape) = 1} : SetTensor(x)
    \/ ReadBranchLengths
    \/ \E m \in Models : \E l \in Models \ ({m} \cap {TreeModel}) : AddListener(m, l)
    \/ \E m \in Models, l \in Models : RemoveListener(m, l)
    \/ \E m \in Callables : CallableParameterChanged(m)
    \/ \E m \in Callables : Call(m)

SpecListeners == InitListeners /\ [][NextListeners]_vars

-----------------------------------------------------------------------------
(* parse_tree applied to a newick topology and a list of taxa.             *)

ValueError == [error |-> "ValueError"]

\* Tree.get(..., taxon_namespace=taxon_namespace): dendropy looks every leaf
\* label up in the namespace and adds a new taxon for a label it does not find
RECURSIVE tree_get_namespace(_, _)
tree_get_namespace(ns, labels) ==
    IF labels = <<>> THEN ns
    ELSE tree_get_namespace(
             IF Head(labels) \in Range(ns) THEN ns ELSE Append(ns, Head(labels)),
             Tail(labels))

\* the leaf labels of a topology, left to right
leaf_labels(t) ==
    LET leaves == leaf_node_iter(t, seed_node)
    IN  [i \in DOMAIN leaves |-> taxon_label(t, leaves[i])]

\* parse_tree: the tree with its namespace and node indexes, or ValueError
\* when reading the tree has made the namespace grow
parse_tree(ids, t) ==
    LET taxon_namespace_size == Len(ids)
        namespace == tree_get_namespace(ids, leaf_labels(t))
    IN  IF taxon_namespace_size # Len(namespace) THEN ValueError
        ELSE [tree |-> t, taxon_namespace |-> namespace,
              index |-> setup_indexes(t, namespace)]

\* the lists of distinct taxon identifiers
TaxonLists ==
    {ids \in UNION {[1 .. n -> Range(TaxonIds)] : n \in 1 .. Len(TaxonIds)} :
        \A i, j \in DOMAIN ids : i # j => ids[i] # ids[j]}

\* the topologies: every tree on two or more of the identifiers
Topologies ==
    UNION {AllTrees(S) : S \in {L \in SUBSET Range(TaxonIds) : Cardinality(L) >= 2}}

\* nothing is constructed yet; a topology and a list of taxa are at hand
InitParse ==
    /\ tree = None /\ taxa = None /\ node_index = None
    /\ postorder = None /\ preorder = None
    /\ sampling_times = None /\ bounds = None
    /\ internal_heights = None
    /\ node_heights_cache = None /\ branch_lengths_cache = None
    /\ heights_need_update = None /\ branch_lengths_need_update = None
    /\ recomputed = None
    /\ NoListeners
    /\ NoOtherObjects
    /\ op = "input"
    /\ arg \in {[newick |-> t, taxa |-> ids] : t \in Topologies, ids \in TaxonLists}
    /\ ret = None

ParseTree ==
    /\ op = "input"
    /\ op' = "parse_tree"
    /\ arg' = arg
    /\ ret' = parse_tree(arg.taxa, arg.newick)
    /\ UNCHANGED <<treeVars, cacheVars, listenerVars>>
    /\ UNCHANGED otherVars

NextParse == ParseTree

SpecParse == InitParse /\ [][NextParse]_vars

-----------------------------------------------------------------------------
(* The dates of the taxa: the sampling times of the model and the dates    *)
(* attached to the leaves by TimeTreeModel.from_json.                      *)

\* initialize_dates_from_taxa: node.date of every leaf node
initialize_dates_from_taxa(t, idx, tx) ==
    LET dates == [i \in DOMAIN tx |-> tx[i].date]
        max_date == SeqMax(dates)
        leaves == {leaf_node_iter(t, seed_node)[k] :
                      k \in 1 .. Len(leaf_node_iter(t, seed_node))}
    IN  IF max_date # 0
        THEN IF SeqMin(dates) = 0
             THEN [node \in leaves |-> Int2Rat(tx[idx[node] + 1].date)]
             ELSE [node \in leaves |-> Int2Rat(max_date - tx[idx[node] + 1].date)]
        ELSE [node \in leaves |-> Int2Rat(0)]

\* the taxa of the trees whose dates are read
DatedTaxonIds == {"A", "B", "C", "D"}

\* the lists of dates of the first T taxa
DateLists(T) == [1 .. T -> (0 - MaxYear) .. MaxYear]

\* TimeTreeModel.from_json up to the construction of the model
InitDates ==
    /\ \E T \in 2 .. Cardinality(DatedTaxonIds) :
         \E t \in AllTrees({TaxonIds[i] : i \in 1 .. T}), dates \in DateLists(T) :
            TimeTreeModelInit(t, TaxaOf(dates))
    /\ NoListeners
    /\ NoOtherObjects
    /\ NoOperation

\* the dates that from_json attached to the leaves of the tree
InitializeDatesFromTaxa ==
    /\ op = "__init__"
    /\ op' = "initialize_dates_from_taxa"
    /\ arg' = arg
    /\ ret' = initialize_dates_from_taxa(tree, node_index, taxa)
    /\ UNCHANGED <<treeVars, cacheVars, listenerVars>>
    /\ UNCHANGED otherVars

NextDates == InitializeDatesFromTaxa

SpecDates == InitDates /\ [][NextDates]_vars

-----------------------------------------------------------------------------
(* UnRootedTreeModel.from_json with keep_branch_lengths: the branch length *)
(* parameter is filled from the edge lengths of the newick tree.           *)

\* the nodes with a parent, sorted by node.index
sorted_nodes(t, idx) ==
    LET nodes == SelectSeq(postorder_node_iter(t, seed_node), has_parent)
        sorted == argsort_column1([k \in DOMAIN nodes |-> <<nodes[k], idx[nodes[k]]>>])
    IN  [k \in DOMAIN sorted |-> sorted[k][1]]

\* blens of from_json before the cut: the edge lengths by node index, each
\* child of the seed node increased by the edge length of the other
blens_added(t, idx, edge_length) ==
    LET nodes == sorted_nodes(t, idx)
        blens == [k \in DOMAIN nodes |-> edge_length[nodes[k]]]
        child_1 == child_nodes(t, seed_node)[1]
        child_2 == child_nodes(t, seed_node)[2]
        first == [blens EXCEPT ![idx[child_1] + 1] = RAdd(@, edge_length[child_2])]
    IN  [first EXCEPT ![idx[child_2] + 1] = RAdd(@, edge_length[child_1])]

\* mutant: the first entry is dropped, not the last
keep_branch_lengths_tail(t, idx, edge_length) ==
    LET blens == blens_added(t, idx, edge_length)
    IN  Tensor1([k \in 1 .. Len(blens) - 1 |-> blens[k + 1]])

\* torch.tensor(blens[:-1])
keep_branch_lengths(t, idx, edge_length) ==
    LET blens == blens_added(t, idx, edge_length)
    IN  Tensor1([k \in 1 .. Len(blens) - 1 |-> blens[k]])

\* the edge lengths of a newick tree: one for each child of the seed node,
\* and one shared by the nodes further down
EdgeLengths(t) ==
    LET nodes == Range(SelectSeq(postorder_node_iter(t, seed_node), has_parent))
    IN  {[node \in nodes |-> Int2Rat(IF node = <<1>> THEN first
                                     ELSE IF node = <<2>> THEN second ELSE other)] :
            first \in 1 .. MaxEdgeLength, second \in 1 .. MaxEdgeLength,
            other \in 1 .. MaxEdgeLength}

\* nothing is constructed yet; a newick tree with edge lengths is at hand
InitUnRooted ==
    /\ tree = None /\ taxa = None /\ node_index = None
    /\ postorder = None /\ preorder = None
    /\ sampling_times = None /\ bounds = None
    /\ internal_heights = None
    /\ node_heights_cache = None /\ branch_lengths_cache = None
    /\ heights_need_update = None /\ branch_lengths_need_update = None
    /\ recomputed = None
    /\ NoListeners
    /\ NoOtherObjects
    /\ op = "input"
    /\ \E T \in 2 .. Len(TaxonIds) :
         \E t \in AllTrees({TaxonIds[i] : i \in 1 .. T}) :
            arg \in {[newick |-> t, edge_length |-> e,
                      taxa |-> TaxaOf([i \in 1 .. T |-> 0])] : e \in EdgeLengths(t)}
    /\ ret = None

\* UnRootedTreeModel.from_json with keep_branch_lengths
UnRootedFromJson ==
    /\ op = "input"
    /\ op' = "from_json"
    /\ arg' = arg
    /\ LET parsed == parse_tree(taxon_namespace(arg.taxa), arg.newick)
       IN  /\ tree' = parsed.tree
           /\ taxa' = arg.taxa
           /\ node_index' = parsed.index
           /\ postorder' = abstract_update_traversals(parsed.tree, parsed.index)
           /\ branch_lengths_cache' =
                  keep_branch_lengths(parsed.tree, parsed.index, arg.edge_length)
    /\ ret' = None
    /\ UNCHANGED <<preorder, sampling_times, bounds, internal_heights,
                   node_heights_cache, heights_need_update,
                   branch_lengths_need_update, recomputed, listenerVars>>
    /\ UNCHANGED otherVars

\* write_newick of the UnRootedTreeModel: branch_lengths() is the tensor of
\* the parameter
UnRootedWriteNewick(taxon_index) ==
    /\ op = "from_json"
    /\ op' = "write_newick"
    /\ arg' = [taxon_index |-> taxon_index]
    /\ LET written == write_newick(tree, node_index, taxon_index, branch_lengths_cache)
       IN  ret' = IF written.ok THEN [newick |-> written.out] ELSE IndexError
    /\ UNCHANGED <<treeVars, cacheVars, listenerVars>>
    /\ UNCHANGED otherVars

NextUnRooted ==
    \/ UnRootedFromJson
    \/ \E taxon_index \in BOOLEAN : UnRootedWriteNewick(taxon_index)

SpecUnRooted == InitUnRooted /\ [][NextUnRooted]_vars

-----------------------------------------------------------------------------
(* GTR and HKY substitution models: the parameters registered by the       *)
(* constructors, and the notification of the listeners when one changes.   *)

SubstitutionModelId == "substitution_model"

\* Parametric.add_parameter: the parameter is registered with the model
add_parameter(parameters, parameter) == parameters \cup {parameter}

\* a change of a parameter calls handle_parameter_changed of the models it
\* is registered with
parameter_reaches(parameters, parameter) == parameter \in parameters

\* SubstitutionModel.__init__: _frequencies is kept, nothing is registered
SubstitutionModel_init(frequencies) ==
    [fields |-> {frequencies}, parameters |-> {}]

\* SymmetricSubstitutionModel.__init__
SymmetricSubstitutionModel_init(frequencies) ==
    LET self == SubstitutionModel_init(frequencies)
    IN  [self EXCEPT !.parameters = add_parameter(@, frequencies)]

\* GTR.__init__: super(GTR, self).__init__ is SymmetricSubstitutionModel.__init__
GTR_init(rates, frequencies) ==
    LET self == SymmetricSubstitutionModel_init(frequencies)
    IN  [self EXCEPT !.fields = @ \cup {rates},
                     !.parameters = add_parameter(@, rates)]

\* HKY.__init__: super(SymmetricSubstitutionModel, self).__init__ is
\* SubstitutionModel.__init__
HKY_init(kappa, frequencies) ==
    LET self == SubstitutionModel_init(frequencies)
    IN  [self EXCEPT !.fields = @ \cup {kappa},
                     !.parameters = add_parameter(@, kappa)]

\* the values a parameter tensor takes
TensorValues == {"v0", "v1"}

\* the lists of listeners of the substitution model
ListenerLists == UNION {[1 .. n -> Callables] : n \in 0 .. Cardinality(Callables)}

\* a GTR or an HKY model is constructed and CallableModels listen to it
InitSubstitution ==
    /\ tree = None /\ taxa = None /\ node_index = None
    /\ postorder = None /\ preorder = None
    /\ sampling_times = None /\ bounds = None
    /\ internal_heights = None
    /\ node_heights_cache = None /\ branch_lengths_cache = None
    /\ heights_need_update = None /\ branch_lengths_need_update = None
    /\ recomputed = None
    /\ \E self \in {[class |-> "GTR"] @@ GTR_init("rates", "frequencies"),
                    [class |-> "HKY"] @@ HKY_init("kappa", "frequencies")} :
          substitution_model \in
              {self @@ [tensors |-> tensors] : tensors \in [self.fields -> TensorValues]}
    /\ logger = None
    /\ \E ls \in ListenerLists :
          listeners = [m \in Callables |-> <<>>] @@ (SubstitutionModelId :> ls)
    /\ lp_needs_update = [m \in Callables |-> TRUE]
    /\ notified = <<>>
    /\ NoOperation

\* a parameter held by the model is given a new tensor; when it reaches GTR /
\* HKY.handle_parameter_changed the model fires model-changed
ParameterChanged(parameter, value) ==
    /\ parameter \in substitution_model.fields
    /\ substitution_model' = [substitution_model EXCEPT !.tensors[parameter] = value]
    /\ IF parameter_reaches(substitution_model.parameters, parameter)
       THEN LET fired == fire_model_changed(listeners, SubstitutionModelId, lp_needs_update)
            IN  /\ lp_needs_update' = fired.lp
                /\ notified' = fired.log
       ELSE /\ notified' = <<>>
            /\ UNCHANGED lp_needs_update
    /\ op' = "parameter_changed"
    /\ arg' = [parameter |-> parameter]
    /\ ret' = None
    /\ UNCHANGED <<treeVars, cacheVars, listeners, logger>>

NextSubstitution ==
    \/ \E parameter \in {"rates", "kappa", "frequencies"}, value \in TensorValues :
          ParameterChanged(parameter, value)
    \/ \E m \in Callables : Call(m)

SpecSubstitution == InitSubstitution /\ [][NextSubstitution]_vars

-----------------------------------------------------------------------------
(* Logger: construction with and without a file name, the rows written,    *)
(* the sample counter, close.  A Logger object is a record of its fields;  *)
(* f is "stdout" or "file", closed tells whether f was closed.             *)

\* the keyword arguments of Logger.__init__ (from_json copies file_name and
\* delimiter when the data holds them)
Kwargs ==
    {[delimiter |-> ","]}
    \cup {[delimiter |-> ",", file_name |-> name] :
             name \in {None, [name |-> ""], [name |-> "log.csv"]}}

\* Logger.__init__: the object, or AttributeError when self.file_name is read
\* without having been assigned
Logger_init(kwargs) ==
    IF "file_name" \notin DOMAIN kwargs THEN AttributeError
    ELSE LET file_name == kwargs.file_name
             truth == IF file_name = None THEN FALSE ELSE file_name.name # ""
         IN  [file_name |-> file_name,
              f |-> IF truth THEN "file" ELSE "stdout",
              closed |-> FALSE,
              rows |-> <<>>,
              sample |-> 1]

\* self.writer.writerow(row): ValueError on a closed file
writerow(self, row) ==
    IF self.closed THEN ValueError ELSE [self EXCEPT !.rows = Append(@, row)]

\* Logger.initialize
Logger_initialize(self) == writerow(self, [header |-> "sample"])

\* Logger.log
Logger_log(self) ==
    LET written == writerow(self, [sample |-> self.sample])
    IN  IF IsError(written) THEN written
        ELSE [written EXCEPT !.sample = @ + 1]

\* Logger.close
Logger_close(self) ==
    IF self.file_name # None THEN [self EXCEPT !.closed = TRUE] ELSE self

\* LoggerInterface.run: the object afterwards and the exception raised, if any
Logger_run(self) ==
    LET initialized == Logger_initialize(self)
        logged == IF IsError(initialized) THEN initialized ELSE Logger_log(initialized)
    IN  IF IsError(initialized) THEN [self |-> self, ret |-> initialized]
        ELSE IF IsError(logged) THEN [self |-> initialized, ret |-> logged]
        ELSE [self |-> Logger_close(logged), ret |-> None]

\* nothing is constructed yet; the keyword arguments are at hand
InitLogger ==
    /\ tree = None /\ taxa = None /\ node_index = None
    /\ postorder = None /\ preorder = None
    /\ sampling_times = None /\ bounds = None
    /\ internal_heights = None
    /\ node_heights_cache = None /\ branch_lengths_cache = None
    /\ heights_need_update = None /\ branch_lengths_need_update = None
    /\ recomputed = None
    /\ NoListeners
    /\ NoOtherObjects
    /\ op = "input"
    /\ arg \in Kwargs
    /\ ret = None

\* Logger(objs, **kwargs)
LoggerConstruct ==
    /\ op = "input"
    /\ op' = "__init__"
    /\ LET self == Logger_init(arg)
       IN  IF IsError(self)
           THEN ret' = self /\ logger' = logger
           ELSE ret' = None /\ logger' = self
    /\ UNCHANGED <<treeVars, cacheVars, listenerVars, substitution_model, arg>>

\* a method of the logger is called: the object afterwards, or the object
\* unchanged and the exception
LoggerCall(method, after) ==
    /\ logger # None
    /\ Len(logger.rows) < MaxRows
    /\ op' = method
    /\ IF IsError(after)
       THEN ret' = after /\ logger' = logger
       ELSE ret' = None /\ logger' = after
    /\ UNCHANGED <<treeVars, cacheVars, listenerVars, substitution_model, arg>>

LoggerInitialize == logger # None /\ LoggerCall("initialize", Logger_initialize(logger))

LoggerLog == logger # None /\ LoggerCall("log", Logger_log(logger))

LoggerClose == logger # None /\ LoggerCall("close", Logger_close(logger))

LoggerRun ==
    /\ logger # None
    /\ Len(logger.rows) < MaxRows - 1
    /\ op' = "run"
    /\ ret' = Logger_run(logger).ret
    /\ logger' = Logger_run(logger).self
    /\ UNCHANGED <<treeVars, cacheVars, listenerVars, substitution_model, arg>>

NextLogger ==
    \/ LoggerConstruct
    \/ LoggerInitialize
    \/ LoggerLog
    \/ LoggerClose
    \/ LoggerRun

SpecLogger == InitLogger /\ [][NextLogger]_vars

-----------------------------------------------------------------------------
(* The tree as the claims speak of it: read off the topology, not off the  *)
(* arrays the program derives from it.                                     *)

Nodes == DOMAIN node_index
InternalNodes == {p \in Nodes : ~is_leaf(SubTree(tree, p))}
LeafNodes == Nodes \ InternalNodes
Children(p) == {p \o <<1>>, p \o <<2>>}

\* q lies in the subtree of p
IsBelow(q, p) == Len(q) >= Len(p) /\ SubSeq(q, 1, Len(p)) = p

\* the node that carries index i
NodeOf(i) == CHOOSE p \in Nodes : node_index[p] = i

\* the sampling time of a leaf
LeafTime(p) == sampling_times[node_index[p] + 1]

\* the largest sampling time among the leaves below p
MaxLeafTime(p) ==
    LET times == {LeafTime(q) : q \in {l \in LeafNodes : IsBelow(l, p)}}
    IN  CHOOSE m \in times : \A u \in times : RGeq(m, u)

\* the bound of a node
BoundOf(p) == bounds[node_index[p] + 1]

\* the height of a node, given one row of internal heights
HeightOf(row, p) ==
    IF p \in LeafNodes THEN LeafTime(p) ELSE row[node_index[p] - taxa_count + 1]

\* all ratios of all rows of x lie in (0, 1)
RatiosInRange(x) ==
    \A r \in DOMAIN x.data : \A k \in 1 .. taxa_count - 2 :
        RGt(x.data[r][k], Int2Rat(0)) /\ RGt(Int2Rat(1), x.data[r][k])

\* the root height of every row of x is at least the largest sampling time
RootHeightAtLeastBound(x) ==
    \A r \in DOMAIN x.data : RGeq(x.data[r][taxa_count - 1], BoundOf(seed_node))

\* the root height of every row of x is above the largest sampling time
RootHeightAboveBound(x) ==
    \A r \in DOMAIN x.data : RGt(x.data[r][taxa_count - 1], BoundOf(seed_node))

\* every parent is at least as high as each of its children, in every row of y
HeightsOrdered(y) ==
    \A r \in DOMAIN y.data : \A p \in InternalNodes : \A c \in Children(p) :
        RGeq(HeightOf(y.data[r], p), HeightOf(y.data[r], c))

-----------------------------------------------------------------------------
(* Claims.                                                                 *)

\* C1 (as stated): for every topology and every ratio tensor whose non-root
\* entries lie in (0,1) and whose last entry is the root height, the heights
\* returned by _call, with the leaf sampling times, satisfy
\* height[node] >= height[child] for every parent-child pair.
C1_OrderingAsStated ==
    (op = "_call" /\ RatiosInRange(arg.x)) => HeightsOrdered(ret)

\* C1 (amended): the same, for ratio tensors whose root height is at least
\* the largest sampling time (the bound of the root).
C1_Ordering ==
    (op = "_call" /\ RatiosInRange(arg.x) /\ RootHeightAtLeastBound(arg.x))
        => HeightsOrdered(ret)

\* C1 witness: _call has run on a valid tensor for a four-taxon tree whose
\* leaves have different sampling times, and some parent is strictly higher
\* than its internal child.
C1_Witness ==
    /\ op = "_call"
    /\ taxa_count = 4
    /\ RatiosInRange(arg.x) /\ RootHeightAtLeastBound(arg.x)
    /\ \E p \in LeafNodes, q \in LeafNodes : LeafTime(p) # LeafTime(q)
    /\ \E p \in InternalNodes : \E c \in Children(p) \cap InternalNodes :
           RGt(HeightOf(ret.data[1], p), HeightOf(ret.data[1], c))

\* C2: _call leaves the root height (the last entry) unchanged and gives
\* every internal non-root node the height
\* bound[node] + ratio[node] * (height[parent] - bound[node]),
\* where height[parent] is the transformed height of the parent.
C2_ForwardTransform ==
    op = "_call" =>
        /\ ret.shape = arg.x.shape
        /\ \A r \in DOMAIN arg.x.data :
            LET x == arg.x.data[r]
                y == ret.data[r]
            IN  /\ node_index[seed_node] - taxa_count + 1 = Len(x)
                /\ y[Len(x)] = x[Len(x)]
                /\ \A p \in InternalNodes \ {seed_node} :
                     LET k == node_index[p] - taxa_count + 1
                         hp == y[node_index[parent_node(p)] - taxa_count + 1]
                     IN  y[k] = RAdd(BoundOf(p), RMul(x[k], RSub(hp, BoundOf(p))))

\* C2 witness: _call has run on a tree with an internal node whose parent is
\* not the root, and that parent's height differs from its ratio.
C2_Witness ==
    /\ op = "_call"
    /\ \E p \in InternalNodes \ {seed_node} :
          /\ parent_node(p) # seed_node
          /\ LET k == node_index[parent_node(p)] - taxa_count + 1
             IN  ret.data[1][k] # arg.x.data[1][k]

\* C3: for every batch shape and every ratio tensor with ratios in (0,1)
\* (and a root height above the largest sampling time), _inverse applied to
\* the result of _call returns the original tensor, with the same shape.
C3_RoundTrip ==
    (op = "_inverse" /\ RatiosInRange(arg.x) /\ RootHeightAboveBound(arg.x))
        => ret = arg.x

\* C4: every internal node's index is greater than the indices of both
\* its children, and the root has the largest index, 2T-2.
C4_IndexOrder ==
    /\ \A p \in InternalNodes : \A c \in Children(p) : node_index[p] > node_index[c]
    /\ node_index[seed_node] = 2 * taxa_count - 2
    /\ \A p \in Nodes : node_index[p] <= node_index[seed_node]

\* C4 witness: a four-taxon tree whose root has two internal children.
C4_Witness ==
    /\ taxa_count = 4
    /\ Children(seed_node) \subseteq InternalNodes
    /\ node_index[seed_node] = 6

\* C8: bounds[leaf] is the leaf's sampling time, bounds[node] of an internal
\* node is the largest sampling time among the leaves below it, and no
\* node's bound exceeds the bound of its parent.
C8_Bounds ==
    /\ Len(bounds) = 2 * taxa_count - 1
    /\ \A p \in LeafNodes : BoundOf(p) = LeafTime(p)
    /\ \A p \in InternalNodes : BoundOf(p) = MaxLeafTime(p)
    /\ \A p \in Nodes \ {seed_node} : RGeq(BoundOf(parent_node(p)), BoundOf(p))

\* C8 witness: a four-taxon tree with an internal node whose bound is below
\* the bound of its parent, and an internal non-root node whose bound is
\* above the sampling time of one of its leaves.
C8_Witness ==
    /\ taxa_count = 4
    /\ \E p \in InternalNodes \ {seed_node} : RGt(BoundOf(parent_node(p)), BoundOf(p))
    /\ \E p \in InternalNodes \ {seed_node} :
           \E l \in LeafNodes : IsBelow(l, p) /\ RGt(BoundOf(p), LeafTime(l))

\* C10: log_abs_det_jacobian sums one term per internal non-root node n
\* (indices T .. 2T-3), the term of n being log(height[parent(n)] - bound[n]).
C10_Jacobian ==
    op = "log_abs_det_jacobian" =>
        /\ ret.shape = batch_shape(arg.y)
        /\ \A r \in DOMAIN arg.y.data :
            LET terms == ret.data[r].sum_log
            IN  /\ Len(terms) = taxa_count - 2
                /\ Len(terms) = Cardinality(InternalNodes \ {seed_node})
                /\ \A n \in taxa_count .. 2 * taxa_count - 3 :
                     LET p == NodeOf(n)
                     IN  /\ p \in InternalNodes \ {seed_node}
                         /\ terms[n - taxa_count + 1] =
                                RSub(HeightOf(arg.y.data[r], parent_node(p)), BoundOf(p))

\* C10 witness: the Jacobian of a four-taxon tree in which the two internal
\* non-root nodes have different parents and different bounds, so that a
\* wrong pairing would show.
C10_Witness ==
    /\ op = "log_abs_det_jacobian"
    /\ taxa_count = 4
    /\ parent_node(NodeOf(4)) # parent_node(NodeOf(5))
    /\ BoundOf(NodeOf(4)) # BoundOf(NodeOf(5))
    /\ ret.data[1].sum_log[1] # ret.data[1].sum_log[2]

\* the internal heights the parameter holds now, and the node heights and
\* branch lengths that follow from them
CurrentInternalHeights == parameter_tensor(taxa_count, bounds, preorder, internal_heights)
CurrentNodeHeights == node_heights_tensor(sampling_times, CurrentInternalHeights)
CurrentBranchLengths == branch_lengths_tensor(preorder, CurrentNodeHeights)

C9_BranchLengths ==
    (op = "branch_lengths" /\ ~IsError(ret)) =>
        /\ ret.shape = batch_shape(internal_heights.x) \o <<2 * taxa_count - 2>>
        /\ DOMAIN ret.data = DOMAIN internal_heights.x.data
        /\ \A r \in DOMAIN ret.data :
              /\ DOMAIN ret.data[r] = 1 .. 2 * taxa_count - 2
              /\ \A p \in Nodes \ {seed_node} :
                    ret.data[r][node_index[p] + 1] =
                        RSub(HeightOf(CurrentInternalHeights.data[r], parent_node(p)),
                             HeightOf(CurrentInternalHeights.data[r], p))
        /\ (tree = CtmcTree /\ internal_heights.x = Tensor1(CtmcHeights)) =>
              \A p \in LeafNodes :
                  LeafTime(p) = Int2Rat(0) => ret.data[1][node_index[p] + 1] = <<3, 2>>

\* C9 witness: branch_lengths() has been read on the five-taxon tree with
\* sampling times [0,1,2,3,12] and internal heights [1.5, 4, 6, 16].
C9_Witness ==
    /\ op = "branch_lengths"
    /\ ~IsError(ret)
    /\ tree = CtmcTree
    /\ sampling_times = <<<<0, 1>>, <<1, 1>>, <<2, 1>>, <<3, 1>>, <<12, 1>>>>
    /\ internal_heights.x = Tensor1(CtmcHeights)
    /\ ret.data[1][1] = <<3, 2>>

\* the CallableModels registered as listeners of model m
DirectCallables(m) == Range(listeners[m]) \cap Callables

\* the CallableModels reached from a set of them in at most n steps along
\* the listener lists
RECURSIVE Downstream(_, _)
Downstream(n, set) ==
    IF n = 0 THEN set
    ELSE Downstream(n - 1, set \cup UNION {DirectCallables(c) : c \in set})

\* the CallableModels that listen to the tree model, directly or through
\* other CallableModels
DownstreamCallables == Downstream(Cardinality(Callables), DirectCallables(TreeModel))

\* no CallableModel downstream of the tree model is downstream of itself
NoListenerCycle ==
    \A m \in DownstreamCallables :
        m \notin Downstream(Cardinality(Callables), DirectCallables(m))

\* the listeners of the tree model that had handle_model_changed called by it
ObserversCalled ==
    \A l \in Range(listeners[TreeModel]) : <<TreeModel, l>> \in Range(notified)

C7_Propagation ==
    op = "handle_parameter_changed" =>
        /\ ret = None => \A m \in DownstreamCallables : lp_needs_update[m]
        /\ NoListenerCycle => ret = None

\* C7 witness: the parameter has changed with one CallableModel listening to
\* the tree model and the other listening to the first: the notification
\* returned, went through both, and both have lp_needs_update set.
C7_Witness ==
    /\ op = "handle_parameter_changed"
    /\ ret = None
    /\ NoListenerCycle
    /\ DirectCallables(TreeModel) # Callables
    /\ DownstreamCallables = Callables
    /\ Len(notified) = Cardinality(Callables)
    /\ \A m \in Callables : lp_needs_update[m]

\* some internal node other than the root has, in some row of heights y, a
\* parent whose height equals the node's bound
DegenerateHeights(y) ==
    \E r \in DOMAIN y.data : \E p \in InternalNodes \ {seed_node} :
        HeightOf(y.data[r], parent_node(p)) = BoundOf(p)

\* the tensor t has an entry that is NaN or infinite
HasNaNOrInf(t) ==
    \E r \in DOMAIN t.data : \E k \in DOMAIN t.data[r] : ~IsFinite(t.data[r][k])

\* C11: when _inverse is applied to heights in which height[parent] equals
\* bound[node] for some internal non-root node, it reports a
\* DegenerateTransform failure instead of returning a tensor that holds NaN
\* or infinity (stated for heights without batch dimensions, whose ratios and
\* root height _inverse does join).
C11_DegenerateReported ==
    (op = "_inverse" /\ Len(arg.y.shape) = 1 /\ DegenerateHeights(arg.y))
        => ret = [error |-> "DegenerateTransform"]

\* C11 (what the code does): on such heights _inverse returns a tensor with
\* a NaN entry.
C11_ReturnsNaN ==
    /\ op = "_inverse"
    /\ Len(arg.y.shape) = 1
    /\ DegenerateHeights(arg.y)
    /\ ~IsError(ret)
    /\ HasNaNOrInf(ret)

\* C12: parse_tree fails with the taxon-mismatch error exactly when the set
\* of leaf labels of the topology differs from the set of taxon identifiers
\* (a leaf label that is no taxon, or a taxon that labels no leaf), and
\* succeeds when the two sets are equal, whatever their order.
C12_TaxonMismatch ==
    op = "parse_tree" =>
        (ret = ValueError <=> Range(leaf_labels(arg.newick)) # Range(arg.taxa))

\* C12 (what the code does): parse_tree has returned a tree although a taxon
\* labels no leaf.
C12_ExtraTaxonAccepted ==
    /\ op = "parse_tree"
    /\ ~IsError(ret)
    /\ Range(leaf_labels(arg.newick)) # Range(arg.taxa)
    /\ Range(leaf_labels(arg.newick)) \subseteq Range(arg.taxa)

\* node p comes before node q in a postorder traversal: p lies below q, or
\* the two part ways with p going left and q going right
PostorderBefore(p, q) ==
    /\ p # q
    /\ \/ IsBelow(p, q)
       \/ \E k \in 1 .. Len(p) :
             /\ k <= Len(q)
             /\ SubSeq(p, 1, k - 1) = SubSeq(q, 1, k - 1)
             /\ p[k] = 1 /\ q[k] = 2

\* C13: in the tree parse_tree returns for taxa that are exactly the leaf
\* labels, every leaf has the position of its taxon in the taxon list, the
\* internal nodes have T, T+1, ..., 2T-2 in the order of the postorder
\* traversal, and the indexes are a bijection from the 2T-1 nodes onto
\* 0 .. 2T-2 with the leaves on 0 .. T-1.
C13_IndexMap ==
    (op = "parse_tree" /\ ~IsError(ret)
        /\ Range(leaf_labels(arg.newick)) = Range(arg.taxa)) =>
        LET idx == ret.index
            T == Len(arg.taxa)
            leaves == {p \in DOMAIN idx : is_leaf(SubTree(arg.newick, p))}
            internal == DOMAIN idx \ leaves
        IN  /\ \A p \in leaves :
                  /\ idx[p] + 1 \in DOMAIN arg.taxa
                  /\ arg.taxa[idx[p] + 1] = taxon_label(arg.newick, p)
            /\ \A p \in internal :
                  idx[p] = T + Cardinality({q \in internal : PostorderBefore(q, p)})
            /\ Cardinality(DOMAIN idx) = 2 * T - 1
            /\ {idx[p] : p \in DOMAIN idx} = 0 .. 2 * T - 2
            /\ {idx[p] : p \in leaves} = 0 .. T - 1

\* C13 witness: parse_tree has indexed a four-taxon tree whose leaves, read
\* left to right, are not in the order of the taxon list, and which has an
\* internal node that is not on the path from the first leaf to the root.
C13_Witness ==
    /\ op = "parse_tree"
    /\ ~IsError(ret)
    /\ Len(arg.taxa) = Len(TaxonIds)
    /\ Range(leaf_labels(arg.newick)) = Range(arg.taxa)
    /\ leaf_labels(arg.newick) # arg.taxa
    /\ ~is_leaf(arg.newick[1]) /\ ~is_leaf(arg.newick[2])
    /\ ret.index[<<2>>] = Len(arg.taxa) + 1

\* the ladder topology (((A,B),C),D) of test_coalescent.py
LadderTree == <<<<<<<<"A">>, <<"B">>>>, <<"C">>>>, <<"D">>>>

\* C14: on the ladder topology (((A,B),C),D) with all sampling times 0,
\* _call equals inverse_transform_homochronous for every input x
\* (heights[2] = x[2], heights[1] = x[1] * heights[2], heights[0] = x[0] *
\* heights[1]); the ratio vector [1/3, 1/2, 12] yields heights [2, 6, 12].
C14_Homochronous ==
    (op = "_call" /\ tree = LadderTree
        /\ \A i \in DOMAIN sampling_times : sampling_times[i] = Int2Rat(0)) =>
        /\ ret = inverse_transform_homochronous(arg.x)
        /\ arg.x = Tensor1(ratios_list) =>
              ret = Tensor1(<<Int2Rat(2), Int2Rat(6), Int2Rat(12)>>)

\* C14 witness: _call has run on the ladder with sampling times 0 and the
\* ratio vector [1/3, 1/2, 12], and returned [2, 6, 12].
C14_Witness ==
    /\ op = "_call"
    /\ tree = LadderTree
    /\ \A i \in DOMAIN sampling_times : sampling_times[i] = Int2Rat(0)
    /\ arg.x = Tensor1(ratios_list)
    /\ ret.data[1] = <<<<2, 1>>, <<6, 1>>, <<12, 1>>>>

\* C15: __call__ invokes _call exactly when lp_needs_update is set and leaves
\* the flag cleared; the flag is set again only by handle_parameter_changed
\* or handle_model_changed of that model and cleared only by its __call__,
\* so of consecutive calls with no notification in between only the first
\* invokes _call (the others return the cached lp), and after a notification
\* the flag is set, so the next call invokes _call again.
C15_CallCaches ==
    [][/\ op' = "__call__" =>
             /\ ret'.recomputed = lp_needs_update[arg'.model]
             /\ ~lp_needs_update'[arg'.model]
       /\ (op = "__call__" /\ op' = "__call__" /\ arg'.model = arg.model) =>
             ~ret'.recomputed
       /\ op' = "CallableModel.handle_parameter_changed" => lp_needs_update'[arg'.model]
       /\ \A k \in DOMAIN notified' :
             notified'[k][2] \in Callables => lp_needs_update'[notified'[k][2]]
       /\ \A m \in Callables :
             /\ (~lp_needs_update[m] /\ lp_needs_update'[m]) =>
                   \/ \E k \in DOMAIN notified' : notified'[k][2] = m
                   \/ op' = "CallableModel.handle_parameter_changed" /\ arg'.model = m
             /\ (lp_needs_update[m] /\ ~lp_needs_update'[m]) =>
                   op' = "__call__" /\ arg'.model = m
      ]_vars

\* C15 witness: a CallableModel registered with the tree model, whose
\* parameter is assigned, has been called while its flag was clear: _call
\* was not invoked and the flag is still clear.
C15_Witness ==
    /\ op = "__call__"
    /\ ~ret.recomputed
    /\ ~lp_needs_update[arg.model]
    /\ arg.model \in Range(listeners[TreeModel])
    /\ internal_heights # None

\* the string the claim describes for the subtree of node p, with the
\* branch lengths that follow from row r of the internal heights
RECURSIVE NewickOf(_, _, _)
NewickOf(p, taxon_index, r) ==
    LET row == CurrentInternalHeights.data[r]
        name == IF p \in LeafNodes
                THEN IF taxon_index THEN <<[index |-> node_index[p] + 1]>>
                     ELSE <<[label |-> taxon_label(tree, p)]>>
                ELSE <<Punct("(")>> \o NewickOf(p \o <<1>>, taxon_index, r)
                     \o <<Punct(",")>> \o NewickOf(p \o <<2>>, taxon_index, r)
                     \o <<Punct(")")>>
    IN  IF p = seed_node THEN Append(name, Punct(";"))
        ELSE name \o <<Punct(":"),
                       [number |-> RSub(HeightOf(row, parent_node(p)), HeightOf(row, p))]>>

\* the number of tokens c among the first n of out
Count(out, c, n) == Cardinality({k \in 1 .. n : out[k] = c})

\* C16: for any tree model with a parameter, write_newick emits, for each
\* internal node, '(' first child ',' second child ')', for each leaf its
\* taxon label (its index + 1 when taxon_index is set), ':' and the branch
\* length of the node after every non-root node and ';' after the root;
\* every leaf appears exactly once and the parentheses balance.
C16_Newick ==
    (op = "write_newick" /\ internal_heights # None) =>
        /\ ~IsError(ret)
        /\ \E r \in DOMAIN CurrentInternalHeights.data :
              ret.newick = NewickOf(seed_node, arg.taxon_index, r)
        /\ \A p \in LeafNodes :
              Count(ret.newick,
                    IF arg.taxon_index THEN [index |-> node_index[p] + 1]
                    ELSE [label |-> taxon_label(tree, p)],
                    Len(ret.newick)) >= 1
        /\ Count(ret.newick, Punct("("), Len(ret.newick))
              = Count(ret.newick, Punct(")"), Len(ret.newick))
        /\ \A n \in 1 .. Len(ret.newick) :
              Count(ret.newick, Punct("("), n) >= Count(ret.newick, Punct(")"), n)

\* C16 (what the code does): write_newick of a model whose parameter has a
\* batch dimension has raised IndexError.
C16_IndexError ==
    /\ op = "write_newick"
    /\ internal_heights # None
    /\ Len(internal_heights.x.shape) = 2
    /\ ret = IndexError

\* the tensor t holds, in every row, the sampling times of the leaves and
\* then the internal heights of the same row of h: 2T-1 entries
LeavesThenInternal(t, h) ==
    /\ IsTensor(t)
    /\ t.shape = batch_shape(h) \o <<2 * taxa_count - 1>>
    /\ DOMAIN t.data = DOMAIN h.data
    /\ \A r \in DOMAIN t.data :
          /\ DOMAIN t.data[r] = 1 .. 2 * taxa_count - 1
          /\ \A p \in Nodes : t.data[r][node_index[p] + 1] = HeightOf(h.data[r], p)

\* C17: a read of node_heights while heights_need_update is set returns the
\* heights built from the current value of the parameter (for a transformed
\* parameter the forward transform of the current ratios), leaves at their
\* sampling times, 2T-1 entries, keeps them as the cache and clears the
\* flag; a read while the flag is clear returns the cached tensor and
\* changes neither the cache nor the flag.
C17_NodeHeightsRead ==
    [][(op' = "node_heights" /\ ~IsError(ret')) =>
          IF heights_need_update
          THEN /\ LeavesThenInternal(ret',
                      IF internal_heights.kind = "TransformedParameter"
                      THEN transform_call(taxa_count, bounds, preorder, internal_heights.x)
                      ELSE internal_heights.x)
               /\ node_heights_cache' = ret'
               /\ ~heights_need_update'
          ELSE /\ ret' = node_heights_cache
               /\ UNCHANGED <<node_heights_cache, heights_need_update>>
      ]_vars

\* C17 witness: node_heights has been read on a model with a transformed
\* parameter of batched ratios and no branch lengths computed yet: the
\* tensor returned has 2T-1 columns, is the cache, and the flag is clear.
C17_Witness ==
    /\ op = "node_heights"
    /\ ~IsError(ret)
    /\ internal_heights.kind = "TransformedParameter"
    /\ Len(ret.shape) = 2
    /\ last_dim(ret) = 2 * taxa_count - 1
    /\ ret = node_heights_cache
    /\ ~heights_need_update
    /\ branch_lengths_cache = None

\* the tensor t holds, in every row, at the index of every non-root node the
\* entry of its parent minus its own entry in the same row of node heights nh
ParentMinusNode(t, nh) ==
    /\ IsTensor(t) /\ IsTensor(nh)
    /\ t.shape = batch_shape(nh) \o <<2 * taxa_count - 2>>
    /\ DOMAIN t.data = DOMAIN nh.data
    /\ \A r \in DOMAIN t.data : \A p \in Nodes \ {seed_node} :
          t.data[r][node_index[p] + 1] =
              RSub(nh.data[r][node_index[parent_node(p)] + 1],
                   nh.data[r][node_index[p] + 1])

\* C18: a read of branch_lengths() while branch_lengths_need_update is set
\* reads the node heights (which are then those of the current parameter),
\* builds the branch lengths from them, keeps them as the cache, and leaves
\* both flags clear; a read while the flag is clear returns the cached
\* tensor and changes neither flag nor cache.
C18_BranchLengthsRead ==
    [][(op' = "branch_lengths" /\ ~IsError(ret')) =>
          IF branch_lengths_need_update
          THEN /\ LeavesThenInternal(node_heights_cache', CurrentInternalHeights)
               /\ ParentMinusNode(ret', node_heights_cache')
               /\ branch_lengths_cache' = ret'
               /\ ~branch_lengths_need_update' /\ ~heights_need_update'
          ELSE /\ ret' = branch_lengths_cache
               /\ UNCHANGED <<branch_lengths_cache, node_heights_cache,
                              branch_lengths_need_update, heights_need_update>>
      ]_vars

\* C18 witness: branch_lengths() has been read on a model with a transformed
\* parameter: both flags are clear, the node heights are cached and the
\* tensor returned is the branch length cache.
C18_Witness ==
    /\ op = "branch_lengths"
    /\ ~IsError(ret)
    /\ internal_heights.kind = "TransformedParameter"
    /\ ~branch_lengths_need_update /\ ~heights_need_update
    /\ node_heights_cache # None
    /\ branch_lengths_cache = ret
    /\ ParentMinusNode(ret, node_heights_cache)

\* a step that read the node heights, the branch lengths or the newick string
\* of a model that has a parameter
ReadStep ==
    /\ op' \in {"node_heights", "branch_lengths", "write_newick"}
    /\ ret' # AttributeError

\* C19: change notifications coalesce.  Counting from the last
\* handle_parameter_changed (or from construction), whatever number of
\* notifications came before it, every read leaves the node heights rebuilt
\* exactly once; a read of the branch lengths (write_newick reads them)
\* leaves the branch lengths rebuilt exactly once too, and a read of the node
\* heights rebuilds no branch lengths.  A second and later read rebuilds
\* nothing and keeps both caches.
C19_Coalesce ==
    [][ReadStep =>
          /\ recomputed'.heights = 1
          /\ recomputed'.lengths =
                 IF op' = "node_heights" THEN recomputed.lengths ELSE 1
          /\ recomputed.heights = 1 => node_heights_cache' = node_heights_cache
          /\ recomputed.lengths = 1 => branch_lengths_cache' = branch_lengths_cache
      ]_vars

\* C19 witness: the node heights were read after a change that followed an
\* earlier read of the branch lengths (their cache is there and is marked
\* stale): the node heights were rebuilt once, the branch lengths not yet.
C19_Witness ==
    /\ op = "node_heights"
    /\ ~IsError(ret)
    /\ recomputed = [heights |-> 1, lengths |-> 0]
    /\ ~heights_need_update
    /\ branch_lengths_cache # None
    /\ branch_lengths_need_update

\* C20: the postorder list holds exactly one triple (node, left child, right
\* child) per internal node, the triples are in strictly increasing order of
\* node index, and every child that is an internal node is the node of an
\* earlier triple.
C20_Postorder ==
    /\ Len(postorder) = Cardinality(InternalNodes)
    /\ \A p \in InternalNodes :
          \E i \in 1 .. Len(postorder) :
             /\ postorder[i] = <<node_index[p], node_index[p \o <<1>>],
                                 node_index[p \o <<2>>]>>
             /\ \A j \in 1 .. Len(postorder) :
                   postorder[j][1] = node_index[p] => j = i
    /\ \A i, j \in 1 .. Len(postorder) :
          i < j => postorder[i][1] < postorder[j][1]
    /\ \A i \in 1 .. Len(postorder) : \A k \in {2, 3} :
          postorder[i][k] >= taxa_count =>
             \E j \in 1 .. i - 1 : postorder[j][1] = postorder[i][k]

\* C20 witness: a tree on four taxa whose root has two internal children:
\* three triples, the last one naming the nodes of the two before it.
C20_Witness ==
    /\ taxa_count = 4
    /\ Len(postorder) = 3
    /\ postorder[3][2] >= taxa_count
    /\ postorder[3][3] >= taxa_count
    /\ {postorder[1][1], postorder[2][1]} = {postorder[3][2], postorder[3][3]}

\* C21: the preorder array holds exactly one pair (parent, node) for every
\* non-root node and none for the root, and for every pair whose parent is
\* not the root the pair that has this parent as its node comes earlier.
C21_Preorder ==
    /\ Len(preorder) = Cardinality(Nodes) - 1
    /\ \A p \in Nodes \ {seed_node} :
          \E i \in 1 .. Len(preorder) :
             /\ preorder[i] = <<node_index[parent_node(p)], node_index[p]>>
             /\ \A j \in 1 .. Len(preorder) :
                   preorder[j][2] = node_index[p] => j = i
    /\ \A i \in 1 .. Len(preorder) : preorder[i][2] # node_index[seed_node]
    /\ \A i \in 1 .. Len(preorder) :
          preorder[i][1] # node_index[seed_node] =>
             \E j \in 1 .. i - 1 : preorder[j][2] = preorder[i][1]

\* C21 witness: a tree on four taxa with an internal node two edges below the
\* root: the pair of that node follows the pair of its parent, which follows
\* a pair of the root.
C21_Witness ==
    /\ taxa_count = 4
    /\ Len(preorder) = 6
    /\ \E i, j \in 1 .. Len(preorder) :
          /\ j < i
          /\ preorder[i][2] >= taxa_count
          /\ preorder[i][1] = preorder[j][2]
          /\ preorder[j][1] = node_index[seed_node]

\* the dates of the taxa
Dates == {taxa[i].date : i \in DOMAIN taxa}

\* C22: update_leaf_heights applies one convention to all leaves (the
\* sampling time is the date when the smallest date is 0, max_date - date
\* otherwise), and the sampling times are all non-negative with minimum 0.
C22_LeafHeights ==
    /\ DOMAIN sampling_times = DOMAIN taxa
    /\ \/ /\ 0 \in Dates /\ \A d \in Dates : d >= 0
          /\ \A i \in DOMAIN taxa : sampling_times[i] = Int2Rat(taxa[i].date)
       \/ /\ ~(0 \in Dates /\ \A d \in Dates : d >= 0)
          /\ \E m \in Dates :
                /\ \A d \in Dates : d <= m
                /\ \A i \in DOMAIN taxa : sampling_times[i] = Int2Rat(m - taxa[i].date)
    /\ \A i \in DOMAIN taxa : RGeq(sampling_times[i], Int2Rat(0))
    /\ \E i \in DOMAIN taxa : sampling_times[i] = Int2Rat(0)

\* C22 witness: dates given as years, none of them 0 and not all equal: the
\* latest taxon has sampling time 0 and an earlier one a positive time.
C22_Witness ==
    /\ 0 \notin Dates
    /\ Cardinality(Dates) > 1
    /\ \E i, j \in DOMAIN taxa :
          /\ taxa[i].date < taxa[j].date
          /\ sampling_times[j] = Int2Rat(0)
          /\ sampling_times[i] = Int2Rat(taxa[j].date - taxa[i].date)

\* C28: the date that initialize_dates_from_taxa attaches to a leaf equals
\* the sampling time that update_leaf_heights stores at the index of that
\* leaf, for every list of taxon dates.
C28_SameOrigin ==
    op = "initialize_dates_from_taxa" =>
        \A node \in DOMAIN ret : ret[node] = sampling_times[node_index[node] + 1]

\* C28, the dates on which the two differ: the largest date is 0 and another
\* date is negative; every leaf is given date 0 while the sampling times are
\* the dates negated.
C28_DatesDiffer ==
    /\ op = "initialize_dates_from_taxa"
    /\ \A d \in Dates : d <= 0
    /\ \E d \in Dates : d < 0
    /\ \A node \in DOMAIN ret : ret[node] = Int2Rat(0)
    /\ \A i \in DOMAIN taxa : sampling_times[i] = Int2Rat(0 - taxa[i].date)
    /\ \E node \in DOMAIN ret : ret[node] # sampling_times[node_index[node] + 1]

\* C23: in every state of a TimeTreeModel a clear branch_lengths_need_update
\* comes with a clear heights_need_update: branch lengths that count as
\* current are never kept over node heights that count as stale.
C23_CleanLengthsCleanHeights ==
    (branch_lengths_need_update = FALSE) => (heights_need_update = FALSE)

\* C23 witness: the branch lengths of a model with a Parameter of heights
\* were read, which rebuilt both tensors once: both flags are clear.
C23_Witness ==
    /\ op = "branch_lengths"
    /\ IsTensor(ret)
    /\ branch_lengths_need_update = FALSE
    /\ heights_need_update = FALSE
    /\ recomputed = [heights |-> 1, lengths |-> 1]
    /\ internal_heights.kind = "Parameter"

\* the sum of a sequence of numbers
RECURSIVE RSum(_)
RSum(s) == IF s = <<>> THEN Int2Rat(0) ELSE RAdd(Head(s), RSum(Tail(s)))

\* the total length of the newick tree given to from_json
TreeLength ==
    LET nodes == SelectSeq(preorder_node_iter(arg.newick, seed_node), has_parent)
    IN  RSum([k \in DOMAIN nodes |-> arg.edge_length[nodes[k]]])

\* C27: in UnRootedTreeModel.from_json with keep_branch_lengths the entry
\* dropped by blens[:-1], that of node index 2T-3, belongs to a child of the
\* root; the other child of the root keeps the sum of the two root edge
\* lengths, every other node keeps its own edge length, and so the 2T-3
\* lengths retained add up to the total length of the tree.
C27_KeepBranchLengths ==
    op = "from_json" =>
        LET blens == branch_lengths_cache.data[1]
            dropped == NodeOf(2 * taxa_count - 3)
            root_edges == RAdd(arg.edge_length[<<1>>], arg.edge_length[<<2>>])
        IN  /\ branch_lengths_cache.shape = <<2 * taxa_count - 3>>
            /\ Len(blens) = 2 * taxa_count - 3
            /\ dropped \in Children(seed_node)
            /\ \A p \in Children(seed_node) \ {dropped} :
                  blens[node_index[p] + 1] = root_edges
            /\ \A p \in Nodes \ ({seed_node} \cup Children(seed_node)) :
                  blens[node_index[p] + 1] = arg.edge_length[p]
            /\ RSum(blens) = TreeLength

\* C27 witness: from_json of a tree on four taxa whose root has two internal
\* children with edges of different lengths: the entry of the second child
\* is dropped and the first child holds the sum of the two.
C27_Witness ==
    /\ op = "from_json"
    /\ taxa_count = 4
    /\ <<1>> \in InternalNodes /\ <<2>> \in InternalNodes
    /\ arg.edge_length[<<1>>] # arg.edge_length[<<2>>]
    /\ node_index[<<2>>] = 2 * taxa_count - 3
    /\ branch_lengths_cache.data[1][node_index[<<1>>] + 1]
          = RAdd(arg.edge_length[<<1>>], arg.edge_length[<<2>>])

\* C24: for every non-root node that write_newick writes, node.index is a
\* position of the branch length tensor of the model, here the tensor of
\* 2T-3 entries that UnRootedTreeModel.from_json builds with
\* keep_branch_lengths: write_newick raises no IndexError.
C24_ValidIndex ==
    op = "write_newick" =>
        /\ \A p \in Nodes \ {seed_node} : node_index[p] < branch_lengths_cache.shape[1]
        /\ ret # IndexError

\* C24 (what the code does): the tensor has 2T-3 entries, the node with index
\* 2T-3 has a parent, and write_newick of the UnRootedTreeModel has raised
\* IndexError.
C24_IndexError ==
    /\ op = "write_newick"
    /\ branch_lengths_cache.shape = <<2 * taxa_count - 3>>
    /\ has_parent(NodeOf(2 * taxa_count - 3))
    /\ ret = IndexError

\* the model whose fire_model_changed the last operation ran
FiringModel == IF op = "handle_parameter_changed" THEN TreeModel ELSE arg.model

\* the listeners that fire_model_changed of model m called, in the order of
\* the calls
CalledBy(m) ==
    LET calls == SelectSeq(notified, LAMBDA c : c[1] = m)
    IN  [k \in DOMAIN calls |-> calls[k][2]]

\* a step that ran fire_model_changed of a model
FireStep ==
    op' \in {"handle_parameter_changed", "CallableModel.handle_parameter_changed"}

\* the list is one listener longer at its end
Registered == \E l \in Models :
    listeners' = [listeners EXCEPT ![arg'.model] = Append(@, l)]

\* the list has lost one entry, the others keep their order
Removed == \E k \in DOMAIN listeners[arg'.model] :
    listeners' = [listeners EXCEPT ![arg'.model] =
                     SubSeq(@, 1, k - 1) \o SubSeq(@, k + 1, Len(@))]

C26_BothRegistered ==
    /\ substitution_model.parameters = substitution_model.fields
    /\ op = "parameter_changed" => CalledBy(SubstitutionModelId) = listeners[SubstitutionModelId]

\* C26 (what the code does): the frequencies of an HKY model are not
\* registered; they have changed and no listener of the model was called.
C26_FrequenciesSilent ==
    /\ op = "parameter_changed"
    /\ arg.parameter = "frequencies"
    /\ substitution_model.class = "HKY"
    /\ substitution_model.parameters = {"kappa"}
    /\ listeners[SubstitutionModelId] # <<>>
    /\ notified = <<>>

\* C29: a Logger constructed without a file_name writes to standard output:
\* construction, initialize, log and close complete without error, the
\* sample counter starts at 1 and is one more than the number of log calls
\* made, close does not close standard output, and run writes the header and
\* then one sample.
C29_StdoutLogger ==
    ("file_name" \notin DOMAIN arg /\ op # "input") =>
        /\ ret = None
        /\ logger # None
        /\ logger.f = "stdout"
        /\ ~logger.closed
        /\ LET samples == SelectSeq(logger.rows, LAMBDA row : "sample" \in DOMAIN row)
           IN  /\ logger.sample = Len(samples) + 1
               /\ \A k \in DOMAIN samples : samples[k].sample = k
        /\ op = "run" =>
              /\ Len(logger.rows) >= 2
              /\ logger.rows[Len(logger.rows) - 1] = [header |-> "sample"]
              /\ logger.rows[Len(logger.rows)] = [sample |-> logger.sample - 1]

\* C29 (what the code does): Logger(objs) without file_name never assigns
\* self.file_name; the constructor has raised AttributeError and there is no
\* logger.
C29_AttributeError ==
    /\ op = "__init__"
    /\ "file_name" \notin DOMAIN arg
    /\ ret = AttributeError
    /\ logger = None

=============================================================================
